---------------------------- MODULE Spec2Model ----------------------------
(***************************************************************************)
(* A model of the cooperative scheduler and the producer/queue subsystem   *)
(* of the `standard` binary: the WaiterQueue (scheduler.rs), the           *)
(* ProducerWithQueue, MultiMachine and OnceMaker (machine.rs) and the tick *)
(* loop (runtime.rs).                                                      *)
(*                                                                         *)
(* The module holds several specifications over one set of variables; a    *)
(* specification leaves the variables of the components it does not use    *)
(* at their idle values.                                                   *)
(*   QueueSpec : the WaiterQueue as a data structure, any call sequence    *)
(*   PQSpec    : one ProducerWithQueue (HandCrafter or Territory), any call  *)
(*               sequence of feed, enqueue, update and hand-crafting       *)
(*   MMSpec    : one MultiMachine store, any call sequence                 *)
(*   ScaleSpec : one producer with a backlog of requests, the scale-up     *)
(*               decision evaluated at any time, constructions completing  *)
(*   TickSpec  : an iron and a copper Territory, requests to both, jobs   *)
(*               queued with with_mut_tick, and tick_fwd                   *)
(*   OnceSpec  : several requesters of one OnceMaker, with the calls that  *)
(*               start its build, the build completing and the scheduler   *)
(*               ticking in any order, under weak fairness                 *)
(*   ExecSpec  : a script that asks a machine for outputs one after the    *)
(*               other through then, and the scheduler ticks that resolve  *)
(*               the chain                                                 *)
(***************************************************************************)
EXTENDS Integers, Sequences, FiniteSets, TLC

VARIABLES
    queue,      \* GameState.queue : WaiterQueue {next_handle, waiters, needs_update}
    panicked,   \* the process hit a panic!/unwrap/unreachable! and is gone
    lastOp,     \* observation: the last operation performed and what it returned
    moved,      \* observation: handles whose value a `get` has moved out
    tick,       \* GameState.tick : the clock (Tick::cur)
    producers,  \* the ProducerWithQueue stores, by producer name
    events,     \* observation: the requests made and the outputs given, in order
    mm,         \* a MultiMachine store (MMSpec), a MachineStorage store (StoreSpec)
    mmTaken,    \* the store returned by take_map, once taken
    script      \* where the game script driving the scheduler stands

vars == <<queue, panicked, lastOp, moved, tick, producers, events, mm, mmTaken, script>>

\* The variables of the producers, idle in the specifications without one.
prodVars == <<tick, producers, events>>
ProdIdle == tick = 0 /\ producers = <<>> /\ events = <<>>

\* The variables of the MultiMachine, idle in the specifications without one.
mmVars == <<mm, mmTaken>>
MMIdle == mm = <<>> /\ mmTaken = <<>>

\* The variables of the WaiterQueue, idle in the specifications without one.
queueVars == <<queue, moved>>
QueueIdle == queue = <<>> /\ moved = {}

\* What QueueSpec leaves alone.
QOther == <<prodVars, mmVars, script>>
QOtherIdle == ProdIdle /\ MMIdle /\ script = <<>>

\* What PQSpec leaves alone.
POther == <<mmVars, script>>
POtherIdle == MMIdle /\ script = <<>>

\* What ExecSpec leaves alone.
EOther == <<mmVars, moved>>
EOtherIdle == MMIdle /\ moved = {}

\* What ScaleSpec leaves alone.
SOther == <<mmVars, moved, script>>
SOtherIdle == MMIdle /\ moved = {} /\ script = <<>>

\* What OnceSpec leaves alone.
OOther == <<mmVars, moved, script, lastOp>>
OOtherIdle == MMIdle /\ moved = {} /\ script = <<>> /\ lastOp = [op |-> "none"]

\* What TickSpec leaves alone.
TOther == <<mmVars, moved>>
TOtherIdle == MMIdle /\ moved = {}

\* What ContSpec leaves alone.
KOther == <<mmVars, moved>>
KOtherIdle == MMIdle /\ moved = {}

\* What JoinSpec leaves alone.
JOther == <<mmVars, moved>>
JOtherIdle == MMIdle /\ moved = {}

\* What WakeSpec leaves alone.
WOther == <<mmVars, moved>>
WOtherIdle == MMIdle /\ moved = {}

\* What MMSpec leaves alone.
MOther == <<queueVars, producers, events, script>>
MOtherIdle == QueueIdle /\ producers = <<>> /\ events = <<>> /\ script = <<>>

\* What CompleteSpec leaves alone.
COther == <<mmVars, moved>>
COtherIdle == MMIdle /\ moved = {}

\* What BundleSpec leaves alone.
BOther == <<queueVars, prodVars, mmVars, panicked>>
BOtherIdle == QueueIdle /\ ProdIdle /\ MMIdle /\ panicked = FALSE

\* What CopySpec leaves alone.
YOther == <<mmVars, moved>>
YOtherIdle == MMIdle /\ moved = {}

\* What PrioSpec leaves alone.
VOther == <<mmVars, moved, script>>
VOtherIdle == MMIdle /\ moved = {} /\ script = <<>>

\* What StoreSpec leaves alone.
StOther == <<queueVars, tick, producers, events>>
StOtherIdle == QueueIdle /\ ProdIdle

(***************************************************************************)
(* Bounds of the model.                                                    *)
(***************************************************************************)
MaxHandles == 3     \* handles issued by a WaiterQueue
MaxVal == 2         \* distinct output values
MaxUpdates == 2     \* entries of needs_update in the data-structure specification

Values == 1..MaxVal

None == [some |-> FALSE]
Some(x) == [some |-> TRUE, val |-> x]

NoOp == [op |-> "none"]

(***************************************************************************)
(* Small helpers on sequences and sets.                                    *)
(***************************************************************************)
Min(S) == CHOOSE x \in S : \A y \in S : x <= y
Max(S) == CHOOSE x \in S : \A y \in S : x >= y

RECURSIVE SortedSeq(_)
\* The elements of a finite set of integers in increasing order.
SortedSeq(S) == IF S = {} THEN <<>> ELSE <<Min(S)>> \o SortedSeq(S \ {Min(S)})

Range(s) == {s[i] : i \in 1..Len(s)}

\* The element of a one-element set: Only({F(x) : x \in {e}}) is F(e) with e
\* evaluated once.
Only(s) == CHOOSE x \in s : TRUE

(***************************************************************************)
(* WaiterState (scheduler.rs 93-105).                                      *)
(***************************************************************************)
Waiting(w, dependent, dormant) ==
    [st |-> "Waiting", waiter |-> w, dependent |-> dependent, dormant |-> dormant]
Done(x) == [st |-> "Done", val |-> x]
BeingChecked == [st |-> "BeingChecked"]

IsWaiting(ws) == ws.st = "Waiting"
IsDone(ws) == ws.st = "Done"

(***************************************************************************)
(* WaiterQueue (scheduler.rs 107-211).  `waiters` is an IndexMap: handles  *)
(* are inserted in increasing order and shift_remove keeps the order, so   *)
(* iteration order is increasing handle order.                             *)
(***************************************************************************)
EmptyQueue == [next_handle |-> 0, waiters |-> <<>>, needs_update |-> <<>>]

Has(q, h) == h \in DOMAIN q.waiters

\* IndexMap::insert of a fresh key
Insert(q, h, ws) ==
    [q EXCEPT !.waiters = [k \in DOMAIN q.waiters \cup {h} |->
                              IF k = h THEN ws ELSE q.waiters[k]]]

\* IndexMap shift_remove
Remove(q, h) ==
    [q EXCEPT !.waiters = [k \in DOMAIN q.waiters \ {h} |-> q.waiters[k]]]

\* next_handle_id: hands out next_handle and increments it
NextHandleId(q) == [q |-> [q EXCEPT !.next_handle = q.next_handle + 1],
                    h |-> q.next_handle]

\* enqueue_waiter / enqueue_waiter_with: a fresh entry, Waiting and not dormant
QEnqueueWaiter(q, w) ==
    LET n == NextHandleId(q)
    IN [q |-> Insert(n.q, n.h, Waiting(w, <<>>, FALSE)), h |-> n.h]

\* set_already_resolved_handle: a fresh entry that is already Done
QSetAlreadyResolved(q, x) ==
    LET n == NextHandleId(q)
    IN [q |-> Insert(n.q, n.h, Done(x)), h |-> n.h]

\* set_output panics on `.unwrap()` when the entry is gone
SetOutputPanics(q, h) == ~Has(q, h)

\* A hypothetical set_output that resolves the entry and wakes nobody.
QSetOutputNoWake(q, h, x) == [q EXCEPT !.waiters[h] = Done(x)]

\* set_output: the dependents of a Waiting entry go to needs_update, and the
\* entry becomes Done(x) whatever it was
QSetOutput(q, h, x) ==
    LET w == q.waiters[h]
        nu == IF IsWaiting(w) THEN q.needs_update \o w.dependent ELSE q.needs_update
    IN [q EXCEPT !.needs_update = nu, !.waiters[h] = Done(x)]

\* get panics on `unreachable!()` when the entry is BeingChecked
GetPanics(q, h) == Has(q, h) /\ q.waiters[h].st = "BeingChecked"

\* A hypothetical get that copies the value instead of moving it out.
QGetKeeping(q, h) ==
    IF Has(q, h) /\ IsDone(q.waiters[h])
    THEN [q |-> q, ret |-> Some(q.waiters[h].val)]
    ELSE [q |-> q, ret |-> None]

\* get: moves the value of a Done entry out, removing the entry
QGet(q, h) ==
    IF Has(q, h) /\ IsDone(q.waiters[h])
    THEN [q |-> Remove(q, h), ret |-> Some(q.waiters[h].val)]
    ELSE [q |-> q, ret |-> None]

\* get_ref: the value of a Done entry, left in place
QGetRef(q, h) ==
    IF Has(q, h) /\ IsDone(q.waiters[h]) THEN Some(q.waiters[h].val) ELSE None

\* WaiterQueue::is_ready
QIsReady(q, h) == Has(q, h) /\ IsDone(q.waiters[h])

\* is_all_done
IsAllDone(q) == \A h \in DOMAIN q.waiters : IsDone(q.waiters[h])

\* enqueue_waiters_for_update: every Waiting entry that is not dormant
QEnqueueWaitersForUpdate(q) ==
    [q EXCEPT !.needs_update =
        @ \o SortedSeq({h \in DOMAIN q.waiters :
                           IsWaiting(q.waiters[h]) /\ ~q.waiters[h].dormant})]

\* next_waiter_to_update: pop_front
QNextWaiterToUpdate(q) ==
    IF q.needs_update = <<>>
    THEN [q |-> q, ret |-> None]
    ELSE [q |-> [q EXCEPT !.needs_update = Tail(@)], ret |-> Some(Head(q.needs_update))]

\* Handles that were handed out so far.
Issued(q) == 0..(q.next_handle - 1)

(***************************************************************************)
(* QueueSpec: the WaiterQueue driven through its public methods in any     *)
(* order, with any issued handle.  The waiters themselves are opaque here  *)
(* (polling them needs the GameState).                                     *)
(***************************************************************************)
QInit ==
    /\ queue = EmptyQueue
    /\ panicked = FALSE
    /\ lastOp = NoOp
    /\ moved = {}
    /\ QOtherIdle

QEnqueue ==
    /\ ~panicked
    /\ queue.next_handle < MaxHandles
    /\ LET r == QEnqueueWaiter(queue, "opaque")
       IN /\ queue' = r.q
          /\ lastOp' = [op |-> "enqueue_waiter", h |-> r.h]
    /\ UNCHANGED <<panicked, moved, QOther>>

QResolved ==
    /\ ~panicked
    /\ queue.next_handle < MaxHandles
    /\ \E x \in Values :
         LET r == QSetAlreadyResolved(queue, x)
         IN /\ queue' = r.q
            /\ lastOp' = [op |-> "set_already_resolved_handle", h |-> r.h]
    /\ UNCHANGED <<panicked, moved, QOther>>

QSet ==
    /\ ~panicked
    /\ \E h \in Issued(queue), x \in Values :
         /\ lastOp' = [op |-> "set_output", h |-> h, val |-> x,
                       wasDone |-> QIsReady(queue, h),
                       before |-> QGetRef(queue, h)]
         /\ IF SetOutputPanics(queue, h)
            THEN panicked' = TRUE /\ UNCHANGED queue
            ELSE queue' = QSetOutput(queue, h, x) /\ UNCHANGED panicked
    /\ UNCHANGED <<moved, QOther>>

QTake ==
    /\ ~panicked
    /\ \E h \in Issued(queue) :
         LET r == QGet(queue, h)
         IN /\ lastOp' = [op |-> "get", h |-> h, ret |-> r.ret,
                          wasMoved |-> h \in moved]
            /\ IF GetPanics(queue, h)
               THEN panicked' = TRUE /\ UNCHANGED <<queue, moved>>
               ELSE /\ queue' = r.q
                    /\ moved' = IF r.ret.some THEN moved \cup {h} ELSE moved
                    /\ UNCHANGED panicked
    /\ UNCHANGED QOther

QPeek ==
    /\ ~panicked
    /\ \E h \in Issued(queue) :
         lastOp' = [op |-> "get_ref", h |-> h, ret |-> QGetRef(queue, h),
                    wasMoved |-> h \in moved]
    /\ UNCHANGED <<queue, panicked, moved, QOther>>

QReady ==
    /\ ~panicked
    /\ \E h \in Issued(queue) :
         lastOp' = [op |-> "is_ready", h |-> h,
                    ret |-> IF QIsReady(queue, h) THEN Some(TRUE) ELSE None,
                    wasMoved |-> h \in moved]
    /\ UNCHANGED <<queue, panicked, moved, QOther>>

QSweep ==
    /\ ~panicked
    /\ Len(QEnqueueWaitersForUpdate(queue).needs_update) <= MaxUpdates
    /\ queue' = QEnqueueWaitersForUpdate(queue)
    /\ lastOp' = [op |-> "enqueue_waiters_for_update"]
    /\ UNCHANGED <<panicked, moved, QOther>>

QPop ==
    /\ ~panicked
    /\ LET r == QNextWaiterToUpdate(queue)
       IN /\ queue' = r.q
          /\ lastOp' = [op |-> "next_waiter_to_update", ret |-> r.ret]
    /\ UNCHANGED <<panicked, moved, QOther>>

QNext == QEnqueue \/ QResolved \/ QSet \/ QTake \/ QPeek \/ QReady \/ QSweep \/ QPop

QueueSpec == QInit /\ [][QNext]_vars


(***************************************************************************)
(* Priority (machine.rs 511-512): a u16; the model uses 1..MaxPrio.        *)
(***************************************************************************)
MaxPrio == 3
Priorities == 1..MaxPrio

(***************************************************************************)
(* Machine (machine.rs 19-45) and MultiBundle for a one-resource recipe    *)
(* (recipes.rs 36-48).  A machine holds the units of its input and output  *)
(* resources; a bundle of inputs is InAmount units, a bundle of outputs    *)
(* OutAmount units.                                                        *)
(***************************************************************************)
InAmount == 2       \* units in one input bundle of the recipe
OutAmount == 1      \* units in one output bundle of the recipe
MaxLoad == 4        \* input bundles fed to a MultiMachine store
MaxMachines == 3    \* machines added to a MultiMachine store
CycleTime == 10     \* ticks a machine takes for one recipe cycle

\* A machine as built: nothing in it; `busy` counts the ticks of the cycle
\* under way.
NewMachine == [inp |-> 0, out |-> 0, busy |-> 0]

\* Machine::input_load = MultiBundle::bundle_count
InputLoad(m) == m.inp \div InAmount

\* Machine::add_inputs = MultiBundle::add
MachineAddInputs(m) == [m EXCEPT !.inp = @ + InAmount]

\* Machine::pop_inputs = MultiBundle::bundle: a bundle if there is enough
MachinePopInputs(m) ==
    IF m.inp >= InAmount
    THEN [m |-> [m EXCEPT !.inp = @ - InAmount], ret |-> Some("inputs")]
    ELSE [m |-> m, ret |-> None]

\* Machine::add_outputs
MachineAddOutputs(m) == [m EXCEPT !.out = @ + OutAmount]

\* Machine::pop_outputs
MachinePopOutputs(m) ==
    IF m.out >= OutAmount
    THEN [m |-> [m EXCEPT !.out = @ - OutAmount], ret |-> Some("bundle")]
    ELSE [m |-> m, ret |-> None]

\* The engine runs one recipe cycle of a machine that has the inputs for it.
MachineWork(m) == [m EXCEPT !.inp = @ - InAmount, !.out = @ + OutAmount, !.busy = 0]

\* The engine's clock step seen from a machine: with the inputs of a cycle in
\* it the machine works, and the cycle ends CycleTime ticks after it began.
MachineTick(m) ==
    IF m.inp < InAmount THEN m
    ELSE IF m.busy + 1 >= CycleTime THEN MachineWork(m)
         ELSE [m EXCEPT !.busy = @ + 1]

(***************************************************************************)
(* MultiMachine (machine.rs 78-180).  The Vecs of NoMachine hold           *)
(* interchangeable bundles and are kept as their lengths.                  *)
(***************************************************************************)
NoMachine(i, o) == [tag |-> "NoMachine", inputs |-> i, outputs |-> o]
Present(ms) == [tag |-> "Present", machines |-> ms]
Removed == [tag |-> "Removed"]

\* MultiMachine::default
MMDefault == NoMachine(0, 0)

\* MultiMachine::is_present
MMIsPresent(s) == s.tag = "Present" /\ s.machines # <<>>

\* MultiMachine::count
MMCount(s) == IF s.tag = "Present" THEN Len(s.machines) ELSE 0

RECURSIVE AddInputsTimes(_, _)
\* for input in mem::take(inputs) { m.add_inputs(tick, input) }
AddInputsTimes(k, m) == IF k = 0 THEN m ELSE AddInputsTimes(k - 1, MachineAddInputs(m))

RECURSIVE AddOutputsTimes(_, _)
\* for output in mem::take(outputs) { m.add_outputs(tick, output) }
AddOutputsTimes(k, m) == IF k = 0 THEN m ELSE AddOutputsTimes(k - 1, MachineAddOutputs(m))

RECURSIVE SumLoads(_)
SumLoads(ms) == IF ms = <<>> THEN 0 ELSE InputLoad(Head(ms)) + SumLoads(Tail(ms))

RECURSIVE DrainInto(_, _, _)
\* while n.input_load(tick) > average_load && let Some(input) = n.pop_inputs(tick)
\*     { m.add_inputs(tick, input) }
DrainInto(n, m, average) ==
    LET popped == MachinePopInputs(n)
    IN IF InputLoad(n) > average /\ popped.ret.some
       THEN DrainInto(popped.m, MachineAddInputs(m), average)
       ELSE [n |-> n, m |-> m]

RECURSIVE Rebalance(_, _, _)
\* for n in items.iter_mut() { ... }: the items after the loop, and the new machine
Rebalance(items, m, average) ==
    IF items = <<>> THEN [items |-> <<>>, m |-> m]
    ELSE LET d == DrainInto(Head(items), m, average)
             rest == Rebalance(Tail(items), d.m, average)
         IN [items |-> <<d.n>> \o rest.items, m |-> rest.m]

\* MultiMachine::add panics on a Removed store
MMAddPanics(s) == s.tag = "Removed"

\* A hypothetical add that averages over the existing machines only.
MMAddOldAverage(s, m) ==
    CASE s.tag = "NoMachine" ->
            Present(<<AddOutputsTimes(s.outputs, AddInputsTimes(s.inputs, m))>>)
      [] s.tag = "Present" ->
            LET total_load == SumLoads(s.machines)
                average_load == total_load \div Len(s.machines)
                r == Rebalance(s.machines, m, average_load)
            IN Present(Append(r.items, r.m))

\* A hypothetical add whose first machine takes over the buffered inputs only.
MMAddInputsOnly(s, m) ==
    CASE s.tag = "NoMachine" -> Present(<<AddInputsTimes(s.inputs, m)>>)
      [] s.tag = "Present" ->
            LET total_load == SumLoads(s.machines)
                average_load == total_load \div (Len(s.machines) + 1)
                r == Rebalance(s.machines, m, average_load)
            IN Present(Append(r.items, r.m))

\* A hypothetical add whose new machine does not take what the others gave up.
MMAddDropping(s, m) ==
    CASE s.tag = "NoMachine" ->
            Present(<<AddOutputsTimes(s.outputs, AddInputsTimes(s.inputs, m))>>)
      [] s.tag = "Present" ->
            LET total_load == SumLoads(s.machines)
                average_load == total_load \div (Len(s.machines) + 1)
                r == Rebalance(s.machines, m, average_load)
            IN Present(Append(r.items, m))

\* MultiMachine::add: the first machine takes over what was buffered; a later
\* one takes the inputs the others hold above the new average
MMAdd(s, m) ==
    CASE s.tag = "NoMachine" ->
            Present(<<AddOutputsTimes(s.outputs, AddInputsTimes(s.inputs, m))>>)
      [] s.tag = "Present" ->
            LET total_load == SumLoads(s.machines)
                average_load == total_load \div (Len(s.machines) + 1)
                r == Rebalance(s.machines, m, average_load)
            IN Present(Append(r.items, r.m))

\* MultiMachine::add_inputs panics on a Removed store
MMAddInputsPanics(s) == s.tag = "Removed"

RECURSIVE MinByKeyLast(_, _, _)
\* A hypothetical fold that lets a later machine of equal load win.
MinByKeyLast(ms, i, best) ==
    IF i > Len(ms) THEN best
    ELSE MinByKeyLast(ms, i + 1,
                      IF InputLoad(ms[best]) >= InputLoad(ms[i]) THEN i ELSE best)

\* A hypothetical pick of the last machine of minimal load.
LeastLoadedLast(ms) == MinByKeyLast(ms, 2, 1)

RECURSIVE MinByKey(_, _, _)
\* Iterator::min_by_key as the fold it is: `best` is the pick among the
\* machines before index i, and a machine replaces it only with a strictly
\* smaller load
MinByKey(ms, i, best) ==
    IF i > Len(ms) THEN best
    ELSE MinByKey(ms, i + 1,
                  IF InputLoad(ms[best]) > InputLoad(ms[i]) THEN i ELSE best)

\* The index min_by_key picks among the machines of a store
LeastLoaded(ms) == MinByKey(ms, 2, 1)

\* MultiMachine::add_inputs
MMAddInputs(s) ==
    CASE s.tag = "NoMachine" -> [s EXCEPT !.inputs = @ + 1]
      [] s.tag = "Present" ->
            [s EXCEPT !.machines[LeastLoaded(s.machines)] = MachineAddInputs(@)]

\* MultiMachine::take_map: the store is left Removed; the mapped store is returned
MMTakeMap(s) ==
    [self |-> Removed,
     ret |-> CASE s.tag = "NoMachine" -> MMDefault
               [] s.tag = "Present" -> Present(s.machines)
               [] s.tag = "Removed" -> Removed]

\* MultiMachine::poll
MMPoll(s) ==
    CASE s.tag = "NoMachine" ->
            IF s.outputs > 0
            THEN [s |-> [s EXCEPT !.outputs = @ - 1], ret |-> Some("bundle")]
            ELSE [s |-> s, ret |-> None]
      [] s.tag = "Present" ->
            LET have == {i \in 1..Len(s.machines) : MachinePopOutputs(s.machines[i]).ret.some}
            IN IF have = {} THEN [s |-> s, ret |-> None]
               ELSE [s |-> [s EXCEPT !.machines[Min(have)] = MachinePopOutputs(@).m],
                     ret |-> Some("bundle")]
      [] s.tag = "Removed" -> [s |-> s, ret |-> None]

\* HandProducer::craft_by_hand for MultiMachine panics unless NoMachine
MMCraftByHandPanics(s) == s.tag # "NoMachine"

\* HandProducer::craft_by_hand for MultiMachine
MMCraftByHand(s) ==
    IF s.inputs > 0
    THEN [s |-> [s EXCEPT !.inputs = @ - 1, !.outputs = @ + 1], advanced |-> TRUE]
    ELSE [s |-> s, advanced |-> FALSE]

\* The input bundles a store holds, buffered or in its machines.
MMTotalLoad(s) ==
    CASE s.tag = "NoMachine" -> s.inputs
      [] s.tag = "Present" -> SumLoads(s.machines)
      [] s.tag = "Removed" -> 0

RECURSIVE SumOutputs(_)
SumOutputs(ms) ==
    IF ms = <<>> THEN 0 ELSE (Head(ms).out \div OutAmount) + SumOutputs(Tail(ms))

\* The output bundles a store holds.
MMTotalOutputs(s) ==
    CASE s.tag = "NoMachine" -> s.outputs
      [] s.tag = "Present" -> SumOutputs(s.machines)
      [] s.tag = "Removed" -> 0

(***************************************************************************)
(* GameState as a record, for the operators that take `&mut GameState` or  *)
(* several of its fields: they map a record to the record after the call.  *)
(***************************************************************************)
GS == [tick |-> tick, queue |-> queue, producers |-> producers,
       panicked |-> panicked, events |-> events, polls |-> <<>>]

(***************************************************************************)
(* Producer (machine.rs 197-251), for                                      *)
(*   HandCrafter (machine.rs 182-195, 253-275, 381-399): its input and     *)
(*     output bundles are interchangeable, so the two Vecs are kept as     *)
(*     their lengths;                                                      *)
(*   Territory (machine.rs 277-319, 400-412): the engine's ore field, with *)
(*     its miners, the ore mined and not yet taken, and the mining time.   *)
(***************************************************************************)
HandCrafterNew == [kind |-> "HandCrafter", inputs |-> 0, outputs |-> 0]

\* A MultiMachine store as a producer.
MultiMachineProducer(store) == [kind |-> "MultiMachine", store |-> store]

\* OnceMaker::default
OnceMakerNew == [kind |-> "OnceMaker", is_started |-> FALSE, output |-> None]

\* A Territory with `m` miners, room for `mx`, that yields one ore per miner
\* every `period` ticks.
TerritoryNew(m, mx, period) ==
    [kind |-> "Territory", miners |-> m, max_miners |-> mx, ore |-> 0,
     period |-> period, phase |-> 0]

\* The engine's clock step seen from a producer: the miners of a Territory
\* deliver one ore each when a mining period has elapsed.
ProducerTick(pr) ==
    CASE pr.kind = "HandCrafter" -> pr
      [] pr.kind = "Territory" ->
            IF pr.miners = 0 THEN pr
            ELSE IF pr.phase + 1 >= pr.period
                 THEN [pr EXCEPT !.phase = 0, !.ore = @ + pr.miners]
                 ELSE [pr EXCEPT !.phase = @ + 1]
      [] pr.kind = "MultiMachine" ->
            IF pr.store.tag = "Present"
            THEN [pr EXCEPT !.store.machines =
                     [i \in 1..Len(pr.store.machines) |-> MachineTick(pr.store.machines[i])]]
            ELSE pr
      [] pr.kind = "OnceMaker" -> pr

\* Producer::add_inputs panics for a Removed MultiMachine
ProducerAddInputsPanics(pr) ==
    pr.kind = "MultiMachine" /\ MMAddInputsPanics(pr.store)

\* Producer::add_inputs
ProducerAddInputs(pr, t) ==
    CASE pr.kind = "HandCrafter" -> [pr EXCEPT !.inputs = @ + 1]
      [] pr.kind = "Territory" -> pr
      [] pr.kind = "MultiMachine" -> [pr EXCEPT !.store = MMAddInputs(@)]
      [] pr.kind = "OnceMaker" -> pr

\* Producer::poll: yields an output if one is ready, taking it out
ProducerPoll(pr, t) ==
    CASE pr.kind = "HandCrafter" ->
            IF pr.outputs > 0
            THEN [p |-> [pr EXCEPT !.outputs = @ - 1], ret |-> Some("bundle")]
            ELSE [p |-> pr, ret |-> None]
      [] pr.kind = "Territory" ->
            IF pr.ore > 0
            THEN [p |-> [pr EXCEPT !.ore = @ - 1], ret |-> Some("bundle")]
            ELSE [p |-> pr, ret |-> None]
      [] pr.kind = "MultiMachine" ->
            [p |-> [pr EXCEPT !.store = MMPoll(@).s], ret |-> MMPoll(pr.store).ret]
      [] pr.kind = "OnceMaker" -> [p |-> pr, ret |-> pr.output]

\* The outputs a producer holds ready.
OutputsReady(pr) ==
    CASE pr.kind = "HandCrafter" -> pr.outputs
      [] pr.kind = "Territory" -> pr.ore
      [] pr.kind = "MultiMachine" -> MMTotalOutputs(pr.store)
      [] pr.kind = "OnceMaker" -> IF pr.output.some THEN 1 ELSE 0

\* Producer::available_parallelism
AvailableParallelism(pr) ==
    CASE pr.kind = "HandCrafter" -> 1
      [] pr.kind = "Territory" -> pr.miners
      [] pr.kind = "MultiMachine" -> MMCount(pr.store)
      [] pr.kind = "OnceMaker" -> IF pr.output.some THEN 1 ELSE 0

\* Whether the producer is a HandProducer (machine.rs 381-433).
IsHandProducer(pr) == pr.kind \in {"HandCrafter", "Territory", "MultiMachine"}

\* HandProducer::can_craft_automatically
CanCraftAutomatically(pr) ==
    CASE pr.kind = "HandCrafter" -> FALSE
      [] pr.kind = "Territory" -> pr.miners > 0
      [] pr.kind = "MultiMachine" -> MMIsPresent(pr.store)

\* HandProducer::craft_by_hand panics for a MultiMachine that is not NoMachine
CraftByHandPanics(pr) ==
    pr.kind = "MultiMachine" /\ MMCraftByHandPanics(pr.store)

\* HandProducer::craft_by_hand: a HandCrafter turns one input into one
\* output, a Territory is mined by hand for one ore; `advanced` is
\* ControlFlow::Break(AdvancedTick)
CraftByHand(pr) ==
    CASE pr.kind = "HandCrafter" ->
            IF pr.inputs > 0
            THEN [p |-> [pr EXCEPT !.inputs = @ - 1, !.outputs = @ + 1],
                  advanced |-> TRUE]
            ELSE [p |-> pr, advanced |-> FALSE]
      [] pr.kind = "Territory" ->
            [p |-> [pr EXCEPT !.ore = @ + 1], advanced |-> TRUE]
      [] pr.kind = "MultiMachine" ->
            [p |-> [pr EXCEPT !.store = MMCraftByHand(@).s],
             advanced |-> MMCraftByHand(pr.store).advanced]

(***************************************************************************)
(* ProducerWithQueue (machine.rs 514-599).  A sink is the handle of the    *)
(* waiter that asked for the output (scheduler.rs 528-529); giving to it   *)
(* resolves that waiter through WaiterQueue::set_output.                   *)
(***************************************************************************)
NewPWQ(pr) == [producer |-> pr, queue |-> <<>>, scaling_up |-> 0]

\* sink.give(waiters, output)
Give(S, sink, out) ==
    IF SetOutputPanics(S.queue, sink)
    THEN [S EXCEPT !.panicked = TRUE]
    ELSE [S EXCEPT !.queue = QSetOutput(@, sink, out),
                   !.events = Append(@, [ev |-> "give", h |-> sink, v |-> out, t |-> S.tick])]

RECURSIVE SortByPriorityUnstable(_)
\* A hypothetical sort that is not stable: among equal priorities the latest
\* comes first.
SortByPriorityUnstable(s) ==
    IF s = <<>> THEN <<>>
    ELSE LET m == Max({s[i].p : i \in 1..Len(s)})
             i == Max({j \in 1..Len(s) : s[j].p = m})
         IN <<s[i]>> \o SortByPriorityUnstable(SubSeq(s, 1, i - 1) \o SubSeq(s, i + 1, Len(s)))

RECURSIVE SortByPriority(_)
\* make_contiguous().sort_by_key(|(_, p)| Reverse(*p)): a stable sort, the
\* highest priority first
SortByPriority(s) ==
    IF s = <<>> THEN <<>>
    ELSE LET m == Max({s[i].p : i \in 1..Len(s)})
             i == Min({j \in 1..Len(s) : s[j].p = m})
         IN <<s[i]>> \o SortByPriority(SubSeq(s, 1, i - 1) \o SubSeq(s, i + 1, Len(s)))

\* A hypothetical enqueue that leaves the new request at the back.
PWQEnqueueUnsorted(S, n, sink, p) ==
    LET pwq == S.producers[n]
        polled == ProducerPoll(pwq.producer, S.tick)
    IN IF pwq.queue = <<>> /\ polled.ret.some
       THEN Give([S EXCEPT !.producers[n].producer = polled.p], sink, polled.ret.val)
       ELSE [S EXCEPT !.producers[n].queue = Append(pwq.queue, [sink |-> sink, p |-> p])]

\* ProducerWithQueue::enqueue: an empty queue and a ready output satisfy the
\* request at once; otherwise it is queued and the queue sorted
PWQEnqueue(S, n, sink, p) ==
    LET pwq == S.producers[n]
        polled == ProducerPoll(pwq.producer, S.tick)
    IN IF pwq.queue = <<>> /\ polled.ret.some
       THEN Give([S EXCEPT !.producers[n].producer = polled.p], sink, polled.ret.val)
       ELSE [S EXCEPT !.producers[n].queue =
                         SortByPriority(Append(pwq.queue, [sink |-> sink, p |-> p]))]

\* ProducerWithQueue::feed
PWQFeed(S, n, p, sink) ==
    IF ProducerAddInputsPanics(S.producers[n].producer)
    THEN [S EXCEPT !.panicked = TRUE]
    ELSE PWQEnqueue([S EXCEPT !.producers[n].producer = ProducerAddInputs(@, S.tick)],
                    n, sink, p)

\* A hypothetical update that serves one request per call.
PWQUpdateOnce(S, n) ==
    LET pwq == S.producers[n]
        polled == ProducerPoll(pwq.producer, S.tick)
    IN IF pwq.queue # <<>> /\ polled.ret.some
       THEN Give([S EXCEPT !.producers[n].producer = polled.p,
                           !.producers[n].queue = Tail(@)],
                 Head(pwq.queue).sink, polled.ret.val)
       ELSE S

RECURSIVE PWQUpdate(_, _)
\* ProducerWithQueue::update: while the queue is not empty and the producer
\* yields an output, pop the front request and give it the output
PWQUpdate(S, n) ==
    LET pwq == S.producers[n]
        polled == ProducerPoll(pwq.producer, S.tick)
    IN IF ~S.panicked /\ pwq.queue # <<>> /\ polled.ret.some
       THEN Only({PWQUpdate(T, n) :
                     T \in {Give([S EXCEPT !.producers[n].producer = polled.p,
                                           !.producers[n].queue = Tail(@)],
                                 Head(pwq.queue).sink, polled.ret.val)}})
       ELSE S

\* A hypothetical craft_by_hand_if_needed that does not look at the queue.
PWQCraftByHandUnasked(S, n) ==
    LET pwq == S.producers[n]
        c == CraftByHand(pwq.producer)
    IN IF ~CanCraftAutomatically(pwq.producer)
       THEN IF CraftByHandPanics(pwq.producer)
            THEN [S |-> [S EXCEPT !.panicked = TRUE], advanced |-> FALSE]
            ELSE [S |-> [S EXCEPT !.producers[n].producer =
                                      IF c.advanced THEN ProducerTick(c.p) ELSE c.p,
                                  !.tick = IF c.advanced THEN @ + 1 ELSE @],
                  advanced |-> c.advanced]
       ELSE [S |-> S, advanced |-> FALSE]

\* ProducerWithQueue::craft_by_hand_if_needed; a hand-craft advances the clock
PWQCraftByHandIfNeeded(S, n) ==
    LET pwq == S.producers[n]
        c == CraftByHand(pwq.producer)
    IN IF ~CanCraftAutomatically(pwq.producer) /\ pwq.queue # <<>>
       THEN IF CraftByHandPanics(pwq.producer)
            THEN [S |-> [S EXCEPT !.panicked = TRUE], advanced |-> FALSE]
            ELSE [S |-> [S EXCEPT !.producers[n].producer =
                                      IF c.advanced THEN ProducerTick(c.p) ELSE c.p,
                                  !.tick = IF c.advanced THEN @ + 1 ELSE @],
                  advanced |-> c.advanced]
       ELSE [S |-> S, advanced |-> FALSE]

\* The waiter of wait_for_producer_output (scheduler.rs 521-527): its poll
\* returns WaitingForResource
ResourceWaiter == [kind |-> "resource"]

(***************************************************************************)
(* PQSpec: one ProducerWithQueue, over a HandCrafter or over a Territory    *)
(* with or without a miner.  Requests come with inputs (feed) or without   *)
(* (enqueue), outputs appear by hand-crafting or as the clock advances,    *)
(* and update hands them out.                                              *)
(***************************************************************************)
MaxTick == 3        \* clock values in PQSpec
MaxMiners == 1      \* miners a Territory of the model has room for

PInit ==
    /\ queue = EmptyQueue
    /\ panicked = FALSE
    /\ lastOp = NoOp
    /\ moved = {}
    /\ tick = 0
    /\ \E pr \in {HandCrafterNew, MultiMachineProducer(MMDefault)}
                  \cup {TerritoryNew(m, MaxMiners, 1) : m \in 0..MaxMiners} :
          producers = [n \in {"prod"} |-> NewPWQ(pr)]
    /\ events = <<>>
    /\ POtherIdle

\* Writes a GameState record back to the variables.
Store(S) ==
    /\ tick' = S.tick
    /\ queue' = S.queue
    /\ producers' = S.producers
    /\ panicked' = S.panicked
    /\ events' = S.events

\* Producer::feed through a fresh resource waiter
PFeed ==
    /\ ~panicked
    /\ queue.next_handle < MaxHandles
    /\ \E p \in Priorities :
         LET r == QEnqueueWaiter(queue, ResourceWaiter)
             S0 == [GS EXCEPT !.queue = r.q,
                              !.events = Append(@, [ev |-> "req", h |-> r.h, p |-> p, t |-> tick])]
         IN /\ Store(PWQFeed(S0, "prod", p, r.h))
            /\ lastOp' = [op |-> "feed", h |-> r.h, p |-> p]
    /\ UNCHANGED <<moved, POther>>

\* wait_for_producer_output: a fresh resource waiter is enqueued, no input
PEnqueue ==
    /\ ~panicked
    /\ queue.next_handle < MaxHandles
    /\ \E p \in Priorities :
         LET r == QEnqueueWaiter(queue, ResourceWaiter)
             S0 == [GS EXCEPT !.queue = r.q,
                              !.events = Append(@, [ev |-> "req", h |-> r.h, p |-> p, t |-> tick])]
         IN /\ Store(PWQEnqueue(S0, "prod", r.h, p))
            /\ lastOp' = [op |-> "enqueue", h |-> r.h, p |-> p]
    /\ UNCHANGED <<moved, POther>>

PUpdate ==
    /\ ~panicked
    /\ Store(PWQUpdate(GS, "prod"))
    /\ lastOp' = [op |-> "update", pre |-> producers["prod"].queue,
                  outputs |-> OutputsReady(producers["prod"].producer),
                  nevents |-> Len(events)]
    /\ UNCHANGED <<moved, POther>>

PCraft ==
    /\ ~panicked
    /\ tick < MaxTick
    /\ LET r == PWQCraftByHandIfNeeded(GS, "prod")
       IN /\ Store(r.S)
          /\ lastOp' = [op |-> "craft_by_hand_if_needed", advanced |-> r.advanced,
                        auto |-> CanCraftAutomatically(producers["prod"].producer),
                        len |-> Len(producers["prod"].queue),
                        out |-> OutputsReady(producers["prod"].producer),
                        outAfter |-> OutputsReady(r.S.producers["prod"].producer),
                        tick |-> tick, tickAfter |-> r.S.tick]
    /\ UNCHANGED <<moved, POther>>

\* tick.advance(): the clock moves by one tick and the miners work
PAdvance ==
    /\ ~panicked
    /\ tick < MaxTick
    /\ tick' = tick + 1
    /\ producers' = [producers EXCEPT !["prod"].producer = ProducerTick(@)]
    /\ lastOp' = [op |-> "advance"]
    /\ UNCHANGED <<queue, panicked, moved, events, POther>>

PNext == PFeed \/ PEnqueue \/ PUpdate \/ PCraft \/ PAdvance

PQSpec == PInit /\ [][PNext]_vars

(***************************************************************************)
(* MMSpec: one MultiMachine store driven through its methods in any order. *)
(***************************************************************************)
MInit ==
    /\ mm = MMDefault
    /\ mmTaken = <<>>
    /\ panicked = FALSE
    /\ lastOp = NoOp
    /\ tick = 0
    /\ MOtherIdle

MAdd ==
    /\ ~panicked
    /\ MMCount(mm) < MaxMachines
    /\ lastOp' = [op |-> "add", pre |-> mm]
    /\ IF MMAddPanics(mm)
       THEN panicked' = TRUE /\ UNCHANGED mm
       ELSE mm' = MMAdd(mm, NewMachine) /\ UNCHANGED panicked
    /\ UNCHANGED <<mmTaken, tick, MOther>>

MAddInputs ==
    /\ ~panicked
    /\ MMTotalLoad(mm) + MMTotalOutputs(mm) < MaxLoad
    /\ lastOp' = [op |-> "add_inputs", pre |-> mm]
    /\ IF MMAddInputsPanics(mm)
       THEN panicked' = TRUE /\ UNCHANGED mm
       ELSE mm' = MMAddInputs(mm) /\ UNCHANGED panicked
    /\ UNCHANGED <<mmTaken, tick, MOther>>

MPoll ==
    /\ ~panicked
    /\ LET r == MMPoll(mm)
       IN /\ mm' = r.s
          /\ lastOp' = [op |-> "poll", pre |-> mm, ret |-> r.ret]
    /\ UNCHANGED <<panicked, mmTaken, tick, MOther>>

MCraftByHand ==
    /\ ~panicked
    /\ tick < MaxTick
    /\ lastOp' = [op |-> "craft_by_hand", pre |-> mm]
    /\ IF MMCraftByHandPanics(mm)
       THEN panicked' = TRUE /\ UNCHANGED <<mm, tick>>
       ELSE /\ mm' = MMCraftByHand(mm).s
            /\ tick' = IF MMCraftByHand(mm).advanced THEN tick + 1 ELSE tick
            /\ UNCHANGED panicked
    /\ UNCHANGED <<mmTaken, MOther>>

MTakeMap ==
    /\ ~panicked
    /\ mmTaken = <<>>
    /\ mm' = MMTakeMap(mm).self
    /\ mmTaken' = MMTakeMap(mm).ret
    /\ lastOp' = [op |-> "take_map", pre |-> mm]
    /\ UNCHANGED <<panicked, tick, MOther>>

\* The engine completes a recipe cycle in one machine of the store.
MWork ==
    /\ ~panicked
    /\ mm.tag = "Present"
    /\ \E i \in 1..Len(mm.machines) :
         /\ InputLoad(mm.machines[i]) > 0
         /\ mm' = [mm EXCEPT !.machines[i] = MachineWork(@)]
    /\ lastOp' = [op |-> "work"]
    /\ UNCHANGED <<panicked, mmTaken, tick, MOther>>

MNext == MAdd \/ MAddInputs \/ MPoll \/ MCraftByHand \/ MTakeMap \/ MWork

MMSpec == MInit /\ [][MNext]_vars

(***************************************************************************)
(* MachineStorage (main.rs 265-353): the store of the machines of one      *)
(* kind.  Its Present and Removed are those of MultiMachine; its NoMachine *)
(* holds nothing.                                                          *)
(***************************************************************************)
MSNoMachine == [tag |-> "NoMachine"]

\* MachineStorage::is_present
MSIsPresent(s) == s.tag = "Present"

\* MachineStorage::add: a store that is not Present becomes Present(vec![]),
\* then the machine is pushed
MSAdd(s, m) ==
    LET self == IF ~MSIsPresent(s) THEN Present(<<>>) ELSE s
    IN Present(Append(self.machines, m))

\* MachineInputs::input_count of a machine: the amount of its first input
InputCount(m) == m.inp

RECURSIVE MinByCount(_, _, _)
\* min_by_key over the enumerated input counts: the first machine of minimal
\* count wins
MinByCount(ms, i, best) ==
    IF i > Len(ms) THEN best
    ELSE MinByCount(ms, i + 1,
                    IF InputCount(ms[best]) > InputCount(ms[i]) THEN i ELSE best)

\* MachineStorage::request panics on a Removed store
MSRequestPanics(s) == s.tag = "Removed"

\* MachineStorage::request: the MachineId (from 0) of the least loaded machine
MSRequest(s) ==
    CASE s.tag = "NoMachine" -> None
      [] s.tag = "Present" ->
            IF s.machines = <<>> THEN None
            ELSE Some(MinByCount(s.machines, 2, 1) - 1)

\* MachineStorage::get panics unless the store is Present and holds the id
MSGetPanics(s, id) == s.tag # "Present" \/ id >= Len(s.machines)

\* MachineStorage::take_map: the store is left Removed; the mapped store is returned
MSTakeMap(s) ==
    [self |-> Removed,
     ret |-> CASE s.tag = "NoMachine" -> MSNoMachine
               [] s.tag = "Present" -> Present(s.machines)
               [] s.tag = "Removed" -> Removed]

(***************************************************************************)
(* ReusableContainer (resources.rs 44-68) and the Available token.         *)
(***************************************************************************)
\* ReusableContainer::empty
RCEmpty == [val |-> None]

\* ReusableContainer::available: a token if there is a value
RCAvailable(c) == IF c.val.some THEN Some("Available") ELSE None

\* ReusableContainer::get and ::take unwrap the value
RCUnwrapPanics(c) == ~c.val.some

\* ReusableContainer::take: the value is moved out
RCTake(c) == [self |-> [c EXCEPT !.val = None], ret |-> c.val.val]

\* ReusableContainer::set
RCSet(c, t) == [self |-> [c EXCEPT !.val = Some(t)], ret |-> "Available"]

(***************************************************************************)
(* StoreSpec: the resources of a game: one MachineStorage of labs, used    *)
(* through add, request, get and take_map, and the ReusableContainers of   *)
(* a base recipe and of the two technologies, used as crafting.rs 327-445  *)
(* uses them.  `script.ids` are the MachineIds the script was given,       *)
(* `script.tokens` the Available tokens it holds (a token is Copy and is   *)
(* never given up).                                                        *)
(***************************************************************************)
Reusables == {"IronSmelting", "SteelTechnology", "PointsTechnology"}

MaxStored == 2      \* machines added to the MachineStorage of StoreSpec
MaxHeld == 2        \* bundles held by the machines of StoreSpec

StInit ==
    /\ mm = MSNoMachine
    /\ mmTaken = <<>>
    /\ panicked = FALSE
    /\ lastOp = NoOp
    /\ script = [ids |-> {},
                 tokens |-> {},
                 reusable |-> [c \in Reusables |->
                                  IF c = "SteelTechnology"
                                  THEN RCSet(RCEmpty, c).self ELSE RCEmpty]]
    /\ StOtherIdle

\* The bundles the machines of a store hold, as inputs or as outputs.
MSHeld(s) == IF MSIsPresent(s) THEN MMTotalLoad(s) + MMTotalOutputs(s) ELSE 0

\* add_machine (main.rs 518-527): a machine built is added to the store
StAdd ==
    /\ ~panicked
    /\ MMCount(mm) < MaxStored
    /\ mm' = MSAdd(mm, NewMachine)
    /\ lastOp' = [op |-> "add"]
    /\ UNCHANGED <<panicked, mmTaken, script, StOther>>

\* craft (main.rs 485-500): request a machine; given one, get it and add the
\* inputs to it
StRequest ==
    /\ ~panicked
    /\ MSHeld(mm) < MaxHeld
    /\ lastOp' = [op |-> "request"]
    /\ IF MSRequestPanics(mm)
       THEN panicked' = TRUE /\ UNCHANGED <<mm, script>>
       ELSE /\ UNCHANGED panicked
            /\ IF MSRequest(mm).some
               THEN /\ mm' = [mm EXCEPT !.machines[MSRequest(mm).val + 1] =
                                           MachineAddInputs(@)]
                    /\ script' = [script EXCEPT !.ids = @ \cup {MSRequest(mm).val}]
               ELSE UNCHANGED <<mm, script>>
    /\ UNCHANGED <<mmTaken, StOther>>

\* craft (main.rs 501-504): the outputs of the machine of an id given earlier
StGet ==
    /\ ~panicked
    /\ \E id \in script.ids :
          /\ lastOp' = [op |-> "get"]
          /\ IF MSGetPanics(mm, id)
             THEN panicked' = TRUE /\ UNCHANGED mm
             ELSE /\ MachinePopOutputs(mm.machines[id + 1]).ret.some
                  /\ mm' = [mm EXCEPT !.machines[id + 1] = MachinePopOutputs(@).m]
                  /\ UNCHANGED panicked
    /\ UNCHANGED <<mmTaken, script, StOther>>

\* take_map (main.rs 782-787)
StTakeMap ==
    /\ ~panicked
    /\ mmTaken = <<>>
    /\ mm' = MSTakeMap(mm).self
    /\ mmTaken' = MSTakeMap(mm).ret
    /\ lastOp' = [op |-> "take_map"]
    /\ UNCHANGED <<panicked, script, StOther>>

\* The engine completes a recipe cycle in one machine of the store.
StWork ==
    /\ ~panicked
    /\ mm.tag = "Present"
    /\ \E i \in 1..Len(mm.machines) :
         /\ InputLoad(mm.machines[i]) > 0
         /\ mm' = [mm EXCEPT !.machines[i] = MachineWork(@)]
    /\ lastOp' = [op |-> "work"]
    /\ UNCHANGED <<panicked, mmTaken, script, StOther>>

\* Available<T>::make_to (crafting.rs 332-341): the token of a container that
\* holds its value is given; a base recipe that is not there yet is set by
\* its trigger_make (crafting.rs 439-444)
StMakeTo ==
    /\ ~panicked
    /\ \E c \in Reusables :
          /\ \/ RCAvailable(script.reusable[c]).some
             \/ c = "IronSmelting"
          /\ script' = [script EXCEPT
                           !.tokens = @ \cup {c},
                           !.reusable[c] = IF RCAvailable(@).some THEN @
                                           ELSE RCSet(@, c).self]
          /\ lastOp' = [op |-> "make_to"]
    /\ UNCHANGED <<panicked, mm, mmTaken, StOther>>

\* make_from_input of a machine (crafting.rs 303-330): the value is read
\* through a token
StReadToken ==
    /\ ~panicked
    /\ \E c \in script.tokens :
          /\ lastOp' = [op |-> "get_reusable"]
          /\ panicked' = RCUnwrapPanics(script.reusable[c])
    /\ UNCHANGED <<mm, mmTaken, script, StOther>>

\* SteelSmelting::make_from_input (crafting.rs 389-404): the steel technology
\* is taken out of its container and researched, and the points technology
\* it yields is set
StMakeSteelSmelting ==
    /\ ~panicked
    /\ "SteelTechnology" \in script.tokens
    /\ lastOp' = [op |-> "make_steel_smelting"]
    /\ IF RCUnwrapPanics(script.reusable["SteelTechnology"])
       THEN panicked' = TRUE /\ UNCHANGED script
       ELSE /\ script' = [script EXCEPT
                             !.reusable["SteelTechnology"] = RCTake(@).self,
                             !.reusable["PointsTechnology"] =
                                 RCSet(@, "PointsTechnology").self]
            /\ UNCHANGED panicked
    /\ UNCHANGED <<mm, mmTaken, StOther>>

\* PointRecipe::make_from_input (crafting.rs 429-436): the points technology
\* is taken out of its container and researched
StMakePointRecipe ==
    /\ ~panicked
    /\ "PointsTechnology" \in script.tokens
    /\ lastOp' = [op |-> "make_point_recipe"]
    /\ IF RCUnwrapPanics(script.reusable["PointsTechnology"])
       THEN panicked' = TRUE /\ UNCHANGED script
       ELSE /\ script' = [script EXCEPT
                             !.reusable["PointsTechnology"] = RCTake(@).self]
            /\ UNCHANGED panicked
    /\ UNCHANGED <<mm, mmTaken, StOther>>

StNext ==
    \/ StAdd \/ StRequest \/ StGet \/ StTakeMap \/ StWork
    \/ StMakeTo \/ StReadToken \/ StMakeSteelSmelting \/ StMakePointRecipe

StoreSpec == StInit /\ [][StNext]_vars

(***************************************************************************)
(* The executor (scheduler.rs 33-43, 213-345, 515-531): Poll, the waiters  *)
(* of the combinators as data, and the operators that poll them.  A        *)
(* closure is a record naming what it does.                                *)
(***************************************************************************)
Pending == [tag |-> "Pending"]
WaitingFor(h) == [tag |-> "WaitingFor", h |-> h]
WaitingForResource == [tag |-> "WaitingForResource"]
Ready(v) == [tag |-> "Ready", val |-> v]

\* The waiter W(h, Some(f)) of GameState::map
MapWaiter(h, f) == [kind |-> "map", h |-> h, f |-> Some(f)]
\* The waiter W::First(h, Some(f)) of GameState::then
ThenFirst(h, f) == [kind |-> "then", stage |-> "First", h |-> h, f |-> Some(f)]
\* The waiter W::Second(h) of GameState::then
ThenSecond(h) == [kind |-> "then", stage |-> "Second", h |-> h]
\* The waiter W(x, y) of GameState::pair
PairWaiter(x, y) == [kind |-> "pair", x |-> x, y |-> y]
\* The waiter W(handles) of GameState::collect
CollectWaiter(hs) == [kind |-> "collect", hs |-> hs]
\* The waiter behind the handle of GameState::make: a construction under way,
\* resolved when the construction completes
MakeWaiter == [kind |-> "make"]
\* The waiter behind the handle of GameState::never
NeverWaiter == [kind |-> "never"]

\* A closure that asks producer n for one output at priority p and chains
\* `rest` further requests behind it with `then`.
RequestFn(n, p, rest) == [fn |-> "request", n |-> n, p |-> p, rest |-> rest]
\* |state, _| get_ref(..).scaling_up -= 1
DecScalingUpFn(n) == [fn |-> "dec_scaling_up", n |-> n]
\* |state, TheFirstTime(o)| get_ref(..).producer.output = Some(o)
SetOnceOutputFn(n) == [fn |-> "set_output", n |-> n]
\* |_, v| v: a closure that hands the value on
IdFn == [fn |-> "id"]
\* |_, v| (k, v): a closure that labels the value
LabelFn(k) == [fn |-> "label", k |-> k]
\* move |_, w| (v, w): a closure that puts a value it holds before the value
PrependFn(v) == [fn |-> "prepend", v |-> v]
\* move |state, v| state.map(g, move |_, w| (v, w)): a closure, given to
\* then, that hands on the handle g it holds with the value v put before
JoinFn(g) == [fn |-> "join", g |-> g]
\* |state, miner| get_ref(..).producer.add_miner(tick, miner).unwrap()
AddMinerFn(n) == [fn |-> "add_miner", n |-> n]
\* |state, machine| state.resources.machine().producer.add(tick, machine)
AddMachineFn(n) == [fn |-> "add_machine", n |-> n]

\* GameState::nowait
Nowait(S, x) ==
    LET r == QSetAlreadyResolved(S.queue, x)
    IN [S |-> [S EXCEPT !.queue = r.q], h |-> r.h]

\* Producer::feed for a fresh waiter of wait_for_producer_output: the inputs
\* are at hand, the waiter is enqueued without being polled and put on the
\* producer's queue
WaitForProducerOutput(S, n, p) ==
    LET r == QEnqueueWaiter(S.queue, ResourceWaiter)
        S0 == [S EXCEPT !.queue = r.q,
                        !.events = Append(@, [ev |-> "req", h |-> r.h, p |-> p, t |-> S.tick])]
    IN [S |-> PWQFeed(S0, n, p, r.h), h |-> r.h]

\* Values are written as strings: the tuple (k, v) of a labelling closure,
\* the tuple (a, b) of pair and the Vec of collect.
Labelled(k, v) == ToString(k) \o ":" \o v
PairVal(a, b) == "(" \o a \o ", " \o b \o ")"
RECURSIVE VecItems(_)
VecItems(vs) ==
    IF vs = <<>> THEN ""
    ELSE IF Len(vs) = 1 THEN vs[1]
    ELSE vs[1] \o ", " \o VecItems(Tail(vs))
VecVal(vs) == "[" \o VecItems(vs) \o "]"

\* The closures given to map, applied to the value of the handle.
ApplyMap(S, f, v) ==
    CASE f.fn = "id" -> [S |-> S, val |-> v]
      [] f.fn = "label" -> [S |-> S, val |-> Labelled(f.k, v)]
      [] f.fn = "prepend" -> [S |-> S, val |-> PairVal(f.v, v)]
      [] f.fn = "dec_scaling_up" ->
            IF S.producers[f.n].scaling_up = 0
            THEN [S |-> [S EXCEPT !.panicked = TRUE], val |-> "unit"]
            ELSE [S |-> [S EXCEPT !.producers[f.n].scaling_up = @ - 1], val |-> "unit"]
      [] f.fn = "set_output" ->
            [S |-> [S EXCEPT !.producers[f.n].producer.output = Some(v)], val |-> "unit"]
      [] f.fn = "add_miner" ->
            IF S.producers[f.n].producer.miners >= S.producers[f.n].producer.max_miners
            THEN [S |-> [S EXCEPT !.panicked = TRUE], val |-> "unit"]
            ELSE [S |-> [S EXCEPT !.producers[f.n].producer.miners = @ + 1], val |-> "unit"]
      [] f.fn = "add_machine" ->
            IF MMAddPanics(S.producers[f.n].producer.store)
            THEN [S |-> [S EXCEPT !.panicked = TRUE], val |-> "unit"]
            ELSE [S |-> [S EXCEPT !.producers[f.n].producer.store = MMAdd(@, NewMachine)],
                  val |-> "unit"]

RECURSIVE CheckWaiter(_, _)
RECURSIVE PollHandle(_, _)
RECURSIVE PollWaiter(_, _)
RECURSIVE EnqueueWaiter(_, _)
RECURSIVE ApplyThen(_, _, _)

\* poll_waiter after its check_waiter: move the value out if the waiter is done
PollHandleGet(S1, h) ==
    IF S1.panicked THEN [S |-> S1, ret |-> WaitingFor(h)]
    ELSE IF GetPanics(S1.queue, h)
    THEN [S |-> [S1 EXCEPT !.panicked = TRUE], ret |-> WaitingFor(h)]
    ELSE IF QGet(S1.queue, h).ret.some
    THEN [S |-> [S1 EXCEPT !.queue = QGet(S1.queue, h).q],
          ret |-> Ready(QGet(S1.queue, h).ret.val)]
    ELSE [S |-> S1, ret |-> WaitingFor(h)]

\* GameState::poll_waiter: check the waiter, then move its value out if done
PollHandle(S, h) == Only({PollHandleGet(S1, h) : S1 \in {CheckWaiter(S, h)}})

\* Observation of a call of the closure of the map or then put on handle h.
ClosureNote(h) ==
    [h |-> h, by |-> "closure", dormant |-> FALSE, blocked_on |-> None, t |-> 0]
\* Every observation carries the value the clock has when it is made.
At(S, note) == [note EXCEPT !.t = S.tick]
Noted(S, note) == [S EXCEPT !.polls = Append(@, At(S, note))]

\* W::poll of map once poll_waiter returned r
PollMapAfter(w, r) ==
    IF r.ret.tag # "Ready" THEN [S |-> r.S, w |-> w, ret |-> r.ret]
    ELSE [S |-> ApplyMap(Noted(r.S, ClosureNote(w.h)), w.f.val, r.ret.val).S,
          w |-> [w EXCEPT !.f = None],
          ret |-> Ready(ApplyMap(r.S, w.f.val, r.ret.val).val)]

\* W::poll of then in its Second stage
PollThenSecond(S, w) ==
    Only({[S |-> r2.S, w |-> w, ret |-> r2.ret] : r2 \in {PollHandle(S, w.h)}})

\* A hypothetical poll of then that is ready with the value of the first
\* handle once the closure was called.
PollThenAfterFirstValue(w, r) ==
    IF r.ret.tag # "Ready" THEN [S |-> r.S, w |-> w, ret |-> r.ret]
    ELSE Only({[S |-> a.S, w |-> ThenSecond(a.h), ret |-> r.ret] :
                  a \in {ApplyThen(Noted(r.S, ClosureNote(w.h)), w.f.val, r.ret.val)}})

\* W::poll of then in its First stage once poll_waiter returned r: the
\* closure gives the second handle, which is polled at once
PollThenAfter(w, r) ==
    IF r.ret.tag # "Ready" THEN [S |-> r.S, w |-> w, ret |-> r.ret]
    ELSE Only({PollThenSecond(a.S, ThenSecond(a.h)) :
                  a \in {ApplyThen(Noted(r.S, ClosureNote(w.h)), w.f.val, r.ret.val)}})

\* The handles a pair or collect waiter joins, in order.
JoinHandles(w) == IF w.kind = "pair" THEN <<w.x, w.y>> ELSE w.hs

\* A hypothetical is_ready that goes through poll_waiter, which moves the
\* value of a waiter that is done out.
IsReadyTaking(S, h) ==
    Only({[S |-> r.S, ret |-> r.ret.tag = "Ready"] : r \in {PollHandle(S, h)}})

\* GameState::is_ready: check the waiter, then look whether it is Done
IsReady(S, h) ==
    Only({[S |-> S1, ret |-> QIsReady(S1.queue, h)] : S1 \in {CheckWaiter(S, h)}})

RECURSIVE LastNotReady(_, _, _)
\* handles.filter(|h| !state.is_ready(h)).last(): is_ready is called on every
\* handle in order and the last one that is not ready is kept
LastNotReady(S, hs, last) ==
    IF hs = <<>> THEN [S |-> S, last |-> last]
    ELSE Only({LastNotReady(r.S, Tail(hs), IF r.ret THEN last ELSE Some(Head(hs))) :
                  r \in {IsReady(S, Head(hs))}})

RECURSIVE GetAllReversed(_, _, _)
\* A hypothetical get of each handle that puts the later values first.
GetAllReversed(S, hs, vals) ==
    IF hs = <<>> \/ S.panicked THEN [S |-> S, vals |-> vals]
    ELSE IF GetPanics(S.queue, Head(hs)) \/ ~QGet(S.queue, Head(hs)).ret.some
    THEN [S |-> [S EXCEPT !.panicked = TRUE], vals |-> vals]
    ELSE GetAllReversed([S EXCEPT !.queue = QGet(S.queue, Head(hs)).q], Tail(hs),
                        <<QGet(S.queue, Head(hs)).ret.val>> \o vals)

RECURSIVE GetAll(_, _, _)
\* state.queue.get(h).unwrap() on each handle in order
GetAll(S, hs, vals) ==
    IF hs = <<>> \/ S.panicked THEN [S |-> S, vals |-> vals]
    ELSE IF GetPanics(S.queue, Head(hs)) \/ ~QGet(S.queue, Head(hs)).ret.some
    THEN [S |-> [S EXCEPT !.panicked = TRUE], vals |-> vals]
    ELSE GetAll([S EXCEPT !.queue = QGet(S.queue, Head(hs)).q], Tail(hs),
                Append(vals, QGet(S.queue, Head(hs)).ret.val))

\* A hypothetical poll of pair that yields (value of y, value of x).
PollJoinAfterSwapped(w, n) ==
    IF n.S.panicked THEN [S |-> n.S, w |-> w, ret |-> Pending]
    ELSE IF n.last.some THEN [S |-> n.S, w |-> w, ret |-> WaitingFor(n.last.val)]
    ELSE Only({[S |-> g.S, w |-> w,
                ret |-> IF g.S.panicked THEN Pending
                        ELSE IF w.kind = "pair" THEN Ready(PairVal(g.vals[2], g.vals[1]))
                        ELSE Ready(VecVal(g.vals))] :
                  g \in {GetAll(n.S, JoinHandles(w), <<>>)}})

\* W::poll of pair and of collect once is_ready was called on the handles
PollJoinAfter(w, n) ==
    IF n.S.panicked THEN [S |-> n.S, w |-> w, ret |-> Pending]
    ELSE IF n.last.some THEN [S |-> n.S, w |-> w, ret |-> WaitingFor(n.last.val)]
    ELSE Only({[S |-> g.S, w |-> w,
                ret |-> IF g.S.panicked THEN Pending
                        ELSE IF w.kind = "pair" THEN Ready(PairVal(g.vals[1], g.vals[2]))
                        ELSE Ready(VecVal(g.vals))] :
                  g \in {GetAll(n.S, JoinHandles(w), <<>>)}})

\* Waiter::poll of each waiter: the state and the waiter after the poll, and
\* what the poll returned
PollWaiter(S, w) ==
    CASE w.kind \in {"resource", "make", "never"} ->
            [S |-> S, w |-> w, ret |-> WaitingForResource]
      [] w.kind \in {"pair", "collect"} ->
            Only({PollJoinAfter(w, n) : n \in {LastNotReady(S, JoinHandles(w), None)}})
      [] w.kind = "map" ->
            Only({PollMapAfter(w, r) : r \in {PollHandle(S, w.h)}})
      [] w.kind = "then" /\ w.stage = "First" ->
            Only({PollThenAfter(w, r) : r \in {PollHandle(S, w.h)}})
      [] w.kind = "then" /\ w.stage = "Second" -> PollThenSecond(S, w)

\* A hypothetical enqueue_waiter that puts a waiter that is not ready on the
\* queue as dormant.
EnqueuePolledDormant(r) ==
    IF r.ret.tag = "Ready" THEN Nowait(r.S, r.ret.val)
    ELSE LET n == NextHandleId(r.S.queue)
         IN [S |-> [r.S EXCEPT !.queue = Insert(n.q, n.h, Waiting(r.w, <<>>, TRUE))],
             h |-> n.h]

\* enqueue_waiter once the waiter was polled: a ready one gives an
\* already-resolved handle, any other is put on the queue as polled
EnqueuePolled(r) ==
    IF r.ret.tag = "Ready" THEN Nowait(r.S, r.ret.val)
    ELSE [S |-> [r.S EXCEPT !.queue = QEnqueueWaiter(r.S.queue, r.w).q],
          h |-> QEnqueueWaiter(r.S.queue, r.w).h]

\* Observation of the poll enqueue_waiter makes of the waiter it is given.
RegisterNote ==
    [h |-> 0, by |-> "enqueue_waiter", dormant |-> FALSE, blocked_on |-> None, t |-> 0]

\* GameState::enqueue_waiter: the waiter is polled once, then enqueued
EnqueueWaiter(S, w) ==
    Only({EnqueuePolled(r) :
             r \in {PollWaiter(Noted(S, RegisterNote), w)}})

\* GameState::map
MapHandle(S, h, f) == EnqueueWaiter(S, MapWaiter(h, f))

\* GameState::then
ThenHandle(S, h, f) == EnqueueWaiter(S, ThenFirst(h, f))

\* GameState::pair
PairHandles(S, x, y) == EnqueueWaiter(S, PairWaiter(x, y))

\* GameState::collect
CollectHandles(S, hs) == EnqueueWaiter(S, CollectWaiter(hs))

\* The closures given to then, applied to the value of the first handle: the
\* state after the call and the handle it returned
ApplyThen(S, f, v) ==
    IF f.fn = "join" THEN MapHandle(S, f.g, PrependFn(v))
    ELSE IF f.rest = 0 THEN WaitForProducerOutput(S, f.n, f.p)
    ELSE Only({EnqueueWaiter(r.S, ThenFirst(r.h, RequestFn(f.n, f.p, f.rest - 1))) :
                  r \in {WaitForProducerOutput(S, f.n, f.p)}})

\* A hypothetical check_waiter that does not wake the dependents of a waiter
\* that became ready.
CheckWaiterPutNoWake(w, handle, r) ==
    IF r.S.panicked THEN r.S
    ELSE IF ~Has(r.S.queue, handle) THEN [r.S EXCEPT !.panicked = TRUE]
    ELSE CASE r.ret.tag = "Ready" ->
                [r.S EXCEPT !.queue.waiters[handle] = Done(r.ret.val)]
           [] r.ret.tag = "Pending" ->
                [r.S EXCEPT !.queue.waiters[handle] = Waiting(r.w, w.dependent, FALSE)]
           [] r.ret.tag = "WaitingFor" ->
                IF Has(r.S.queue, r.ret.h) /\ IsWaiting(r.S.queue.waiters[r.ret.h])
                THEN [r.S EXCEPT !.queue.waiters[r.ret.h].dependent = Append(@, handle),
                                 !.queue.waiters[handle] = Waiting(r.w, w.dependent, TRUE)]
                ELSE [r.S EXCEPT !.queue.waiters[handle] =
                                     Waiting(r.w, w.dependent, w.dormant)]
           [] r.ret.tag = "WaitingForResource" ->
                [r.S EXCEPT !.queue.waiters[handle] = Waiting(r.w, w.dependent, TRUE)]

\* A hypothetical check_waiter that leaves a waiter that waits for a resource
\* as it was.
CheckWaiterPutNoSleep(w, handle, r) ==
    IF r.S.panicked THEN r.S
    ELSE IF ~Has(r.S.queue, handle) THEN [r.S EXCEPT !.panicked = TRUE]
    ELSE CASE r.ret.tag = "Ready" ->
                [r.S EXCEPT !.queue.needs_update = @ \o w.dependent,
                            !.queue.waiters[handle] = Done(r.ret.val)]
           [] r.ret.tag = "Pending" ->
                [r.S EXCEPT !.queue.waiters[handle] = Waiting(r.w, w.dependent, FALSE)]
           [] r.ret.tag = "WaitingFor" ->
                IF Has(r.S.queue, r.ret.h) /\ IsWaiting(r.S.queue.waiters[r.ret.h])
                THEN [r.S EXCEPT !.queue.waiters[r.ret.h].dependent = Append(@, handle),
                                 !.queue.waiters[handle] = Waiting(r.w, w.dependent, TRUE)]
                ELSE [r.S EXCEPT !.queue.waiters[handle] =
                                     Waiting(r.w, w.dependent, w.dormant)]
           [] r.ret.tag = "WaitingForResource" ->
                [r.S EXCEPT !.queue.waiters[handle] = Waiting(r.w, w.dependent, w.dormant)]

\* check_waiter once the waiter w of the entry was polled with result r: the
\* entry is put back Done, with its dependents woken, or Waiting
CheckWaiterPut(w, handle, r) ==
    IF r.S.panicked THEN r.S
    ELSE IF ~Has(r.S.queue, handle) THEN [r.S EXCEPT !.panicked = TRUE]
    ELSE CASE r.ret.tag = "Ready" ->
                [r.S EXCEPT !.queue.needs_update = @ \o w.dependent,
                            !.queue.waiters[handle] = Done(r.ret.val)]
           [] r.ret.tag = "Pending" ->
                [r.S EXCEPT !.queue.waiters[handle] = Waiting(r.w, w.dependent, FALSE)]
           [] r.ret.tag = "WaitingFor" ->
                IF Has(r.S.queue, r.ret.h) /\ IsWaiting(r.S.queue.waiters[r.ret.h])
                THEN [r.S EXCEPT !.queue.waiters[r.ret.h].dependent = Append(@, handle),
                                 !.queue.waiters[handle] = Waiting(r.w, w.dependent, TRUE)]
                ELSE [r.S EXCEPT !.queue.waiters[handle] =
                                     Waiting(r.w, w.dependent, w.dormant)]
           [] r.ret.tag = "WaitingForResource" ->
                [r.S EXCEPT !.queue.waiters[handle] = Waiting(r.w, w.dependent, TRUE)]

\* Observation of a poll made by check_waiter: the handle polled, whether
\* its entry was dormant, and the handle it was waiting for if that one is
\* still waiting.
PollNote(S, handle) ==
    LET ws == S.queue.waiters[handle]
        w == ws.waiter
    IN [h |-> handle,
        by |-> "check_waiter",
        dormant |-> ws.dormant,
        blocked_on |-> IF /\ ws.dormant
                          /\ w.kind \in {"map", "then"}
                          /\ Has(S.queue, w.h)
                          /\ IsWaiting(S.queue.waiters[w.h])
                       THEN Some(w.h) ELSE None,
        t |-> S.tick]

\* Observation of check_waiters taking a handle from needs_update: the
\* check_waiter call that follows is made by the sweep itself.
SweepNote(handle) ==
    [h |-> handle, by |-> "check_waiters", dormant |-> FALSE, blocked_on |-> None, t |-> 0]

\* A hypothetical check_waiter that takes an entry that is not Waiting out
\* and does not put it back.
CheckWaiterTakes(S, handle) ==
    IF ~Has(S.queue, handle) THEN S
    ELSE IF ~IsWaiting(S.queue.waiters[handle])
    THEN [S EXCEPT !.queue.waiters[handle] = BeingChecked]
    ELSE Only({CheckWaiterPut(S.queue.waiters[handle], handle, r) :
                  r \in {PollWaiter([S EXCEPT !.queue.waiters[handle] = BeingChecked,
                                              !.polls = Append(@, PollNote(S, handle))],
                                    S.queue.waiters[handle].waiter)}})

\* GameState::check_waiter: the entry is taken out (BeingChecked stands in),
\* a Waiting one is polled, and the entry is put back as the poll leaves it
CheckWaiter(S, handle) ==
    IF ~Has(S.queue, handle) THEN S
    ELSE IF ~IsWaiting(S.queue.waiters[handle]) THEN S
    ELSE Only({CheckWaiterPut(S.queue.waiters[handle], handle, r) :
                  r \in {PollWaiter([S EXCEPT !.queue.waiters[handle] = BeingChecked,
                                              !.polls = Append(@, PollNote(S, handle))],
                                    S.queue.waiters[handle].waiter)}})

(***************************************************************************)
(* The scheduler tick (scheduler.rs 225-239, runtime.rs 66-85).            *)
(***************************************************************************)
\* The producers in the order check_waiters and tick_fwd go through them.
ProducerOrder == <<"iron", "copper", "prod">>

\* The producers a game state holds, in that order.
OrderOf(S) == SelectSeq(ProducerOrder, LAMBDA n : n \in DOMAIN S.producers)

RECURSIVE UpdateAll(_, _)
\* check_waiters, first part: every producer's update, in order
UpdateAll(S, names) ==
    IF names = <<>> \/ S.panicked THEN S
    ELSE Only({UpdateAll(T, Tail(names)) : T \in {PWQUpdate(S, Head(names))}})

RECURSIVE DrainUpdates(_)
\* while let Some(handle) = self.queue.next_waiter_to_update() { check_waiter }
DrainUpdates(S) ==
    LET n == QNextWaiterToUpdate(S.queue)
    IN IF S.panicked \/ ~n.ret.some THEN S
       ELSE Only({DrainUpdates(T) :
                     T \in {CheckWaiter([S EXCEPT !.queue = n.q,
                                                   !.polls = Append(@, At(S, SweepNote(n.ret.val)))],
                                        n.ret.val)}})

\* Observation of the clock as check_waiters starts and as it returns.
ClockNote(at) ==
    [h |-> 0, by |-> at, dormant |-> FALSE, blocked_on |-> None, t |-> 0]

\* A hypothetical check_waiters in which the clock moves between the update
\* of the producers and the polls of the waiters.
CheckWaitersAdvancing(S) ==
    Only({Noted(S2, ClockNote("checked")) :
             S2 \in {DrainUpdates([S1 EXCEPT !.queue = QEnqueueWaitersForUpdate(@),
                                             !.tick = @ + 1]) :
                        S1 \in {UpdateAll(Noted(S, ClockNote("checking")), OrderOf(S))}}})

\* GameState::check_waiters
CheckWaiters(S) ==
    Only({Noted(S2, ClockNote("checked")) :
             S2 \in {DrainUpdates([S1 EXCEPT !.queue = QEnqueueWaitersForUpdate(@)]) :
                        S1 \in {UpdateAll(Noted(S, ClockNote("checking")), OrderOf(S))}}})

\* tick.advance(): the clock moves by one tick and the engine runs every
\* producer for that tick
Advance(S) ==
    [S EXCEPT !.tick = @ + 1,
              !.producers = [n \in DOMAIN S.producers |->
                                [S.producers[n] EXCEPT !.producer = ProducerTick(@)]]]

\* The engine runs the producers other than n for the tick that n's
\* hand-craft took; println!("handcrafting ..") is the record's line.
HandCrafted(S, n) ==
    [S EXCEPT !.producers = [m \in DOMAIN S.producers |->
                                IF m = n THEN S.producers[m]
                                ELSE [S.producers[m] EXCEPT !.producer = ProducerTick(@)]],
              !.events = Append(@, [ev |-> "hand_craft", n |-> n, t |-> S.tick])]

RECURSIVE CraftByHandEach(_, _)
\* A hypothetical tick_fwd chain of plain ifs: every HandProducer that needs
\* it crafts by hand in the same call.
CraftByHandEach(S, names) ==
    IF names = <<>> THEN [S |-> S, advanced |-> FALSE]
    ELSE IF ~IsHandProducer(S.producers[Head(names)].producer)
    THEN CraftByHandEach(S, Tail(names))
    ELSE Only({IF r.S.panicked THEN r
               ELSE Only({[S |-> rest.S, advanced |-> r.advanced \/ rest.advanced] :
                            rest \in {CraftByHandEach(
                                        IF r.advanced THEN HandCrafted(r.S, Head(names))
                                        ELSE r.S, Tail(names))}}) :
                  r \in {PWQCraftByHandIfNeeded(S, Head(names))}})

RECURSIVE CraftByHandFirst(_, _)
\* tick_fwd's if / else if chain: the first HandProducer that crafts by hand
\* advances the tick, or none does
CraftByHandFirst(S, names) ==
    IF names = <<>> THEN [S |-> S, advanced |-> FALSE]
    ELSE IF ~IsHandProducer(S.producers[Head(names)].producer)
    THEN CraftByHandFirst(S, Tail(names))
    ELSE Only({IF r.S.panicked THEN r
               ELSE IF r.advanced
               THEN [S |-> HandCrafted(r.S, Head(names)), advanced |-> TRUE]
               ELSE CraftByHandFirst(r.S, Tail(names)) :
                  r \in {PWQCraftByHandIfNeeded(S, Head(names))}})

\* A job of mut_tick_queue (main.rs 535-539): the territory is mined by hand
\* for one ore, which takes the clock one tick further.
HandMineJob(n) == [fn |-> "hand_mine", n |-> n]

\* f(self, mut_token) for a job of mut_tick_queue; the record of events
\* notes which territory the job mined
RunJob(S, f) ==
    [S EXCEPT !.tick = @ + 1,
              !.events = Append(@, [ev |-> "job", n |-> f.n, t |-> S.tick]),
              !.producers = [m \in DOMAIN S.producers |->
                                IF m = f.n
                                THEN [S.producers[m] EXCEPT
                                         !.producer = ProducerTick(CraftByHand(@).p)]
                                ELSE [S.producers[m] EXCEPT !.producer = ProducerTick(@)]]]

\* A hypothetical tick_fwd that looks at mut_tick_queue before it looks at
\* the territories (as main.rs 387-396 does, which has no hand-crafting).
TickFwdJobsFirst(S, jobs) ==
    IF jobs # <<>>
    THEN Only({[S |-> CheckWaiters(T), jobs |-> Tail(jobs), did |-> "job"] :
                  T \in {RunJob(S, Head(jobs))}})
    ELSE Only({IF c.S.panicked THEN [S |-> c.S, jobs |-> jobs, did |-> "panic"]
               ELSE IF c.advanced
               THEN [S |-> CheckWaiters(c.S), jobs |-> jobs, did |-> "hand_craft"]
               ELSE Only({[S |-> CheckWaiters(T), jobs |-> jobs, did |-> "advance"] :
                             T \in {Advance(c.S)}}) :
                  c \in {CraftByHandFirst(S, OrderOf(S))}})

\* A hypothetical tick_fwd that takes the job queued last.
TickFwdJobsLifo(S, jobs) ==
    Only({IF c.S.panicked THEN [S |-> c.S, jobs |-> jobs, did |-> "panic"]
          ELSE IF c.advanced
          THEN [S |-> CheckWaiters(c.S), jobs |-> jobs, did |-> "hand_craft"]
          ELSE IF jobs # <<>>
          THEN Only({[S |-> CheckWaiters(T), jobs |-> SubSeq(jobs, 1, Len(jobs) - 1),
                      did |-> "job"] :
                        T \in {RunJob(c.S, jobs[Len(jobs)])}})
          ELSE Only({[S |-> CheckWaiters(T), jobs |-> jobs, did |-> "advance"] :
                        T \in {Advance(c.S)}}) :
             c \in {CraftByHandFirst(S, OrderOf(S))}})

\* GameState::tick_fwd with its mut_tick_queue: hand-craft where it is
\* needed, or else run the first queued job, or else advance the clock; then
\* check the waiters
TickFwdJobs(S, jobs) ==
    Only({IF c.S.panicked THEN [S |-> c.S, jobs |-> jobs, did |-> "panic"]
          ELSE IF c.advanced
          THEN [S |-> CheckWaiters(c.S), jobs |-> jobs, did |-> "hand_craft"]
          ELSE IF jobs # <<>>
          THEN Only({[S |-> CheckWaiters(T), jobs |-> Tail(jobs), did |-> "job"] :
                        T \in {RunJob(c.S, Head(jobs))}})
          ELSE Only({[S |-> CheckWaiters(T), jobs |-> jobs, did |-> "advance"] :
                        T \in {Advance(c.S)}}) :
             c \in {CraftByHandFirst(S, OrderOf(S))}})

\* GameState::tick_fwd with no job queued
TickFwd(S) == TickFwdJobs(S, <<>>).S

(***************************************************************************)
(* Scaling up (machine.rs 236-250, 301-318, 360-367, 495-508, 572-605).    *)
(***************************************************************************)
ScaleK == 12            \* queue slots one construction under way accounts for
ScaleFactor == 4        \* queue slots per producing entity before scaling up

\* GameState::make for a construction: a handle that resolves when the
\* construction is complete
Make(S) ==
    LET e == QEnqueueWaiter(S.queue, MakeWaiter)
    IN [S |-> [S EXCEPT !.queue = e.q,
                        !.events = Append(@, [ev |-> "build", h |-> e.h, t |-> S.tick])],
        h |-> e.h]

\* GameState::never: a handle that never resolves
Never(S) ==
    LET e == QEnqueueWaiter(S.queue, NeverWaiter)
    IN [S |-> [S EXCEPT !.queue = e.q], h |-> e.h]

\* A hypothetical OnceMaker::scale_up without the is_started guard.
ProducerScaleUpUnguarded(S, n, p) ==
    LET pr == S.producers[n].producer
        m == Make(S)
        once == Make([S EXCEPT !.producers[n].producer.is_started = TRUE])
    IN CASE pr.kind = "HandCrafter" -> Never(S)
         [] pr.kind = "Territory" ->
               IF pr.miners + S.producers[n].scaling_up <= pr.max_miners
               THEN MapHandle(m.S, m.h, AddMinerFn(n))
               ELSE Never(S)
         [] pr.kind = "MultiMachine" -> MapHandle(m.S, m.h, AddMachineFn(n))
         [] pr.kind = "OnceMaker" -> MapHandle(once.S, once.h, SetOnceOutputFn(n))

\* A hypothetical Territory::scale_up that leaves the construction it is
\* asked for out of the count it compares with max_miners.
ProducerScaleUpOverLimit(S, n, p) ==
    LET pr == S.producers[n].producer
        m == Make(S)
        once == Make([S EXCEPT !.producers[n].producer.is_started = TRUE])
    IN CASE pr.kind = "HandCrafter" -> Never(S)
         [] pr.kind = "Territory" ->
               IF pr.miners + S.producers[n].scaling_up <= pr.max_miners + 1
               THEN MapHandle(m.S, m.h, AddMinerFn(n))
               ELSE Never(S)
         [] pr.kind = "MultiMachine" -> MapHandle(m.S, m.h, AddMachineFn(n))
         [] pr.kind = "OnceMaker" ->
               IF ~pr.is_started
               THEN MapHandle(once.S, once.h, SetOnceOutputFn(n))
               ELSE Nowait(S, "unit")

\* Producer::scale_up and the closure it returns, run at once: the handle of
\* the new producing entity's installation
ProducerScaleUp(S, n, p) ==
    LET pr == S.producers[n].producer
        m == Make(S)
        once == Make([S EXCEPT !.producers[n].producer.is_started = TRUE])
    IN CASE pr.kind = "HandCrafter" -> Never(S)
         [] pr.kind = "Territory" ->
               IF pr.miners + S.producers[n].scaling_up <= pr.max_miners
               THEN MapHandle(m.S, m.h, AddMinerFn(n))
               ELSE Never(S)
         [] pr.kind = "MultiMachine" -> MapHandle(m.S, m.h, AddMachineFn(n))
         [] pr.kind = "OnceMaker" ->
               IF ~pr.is_started
               THEN MapHandle(once.S, once.h, SetOnceOutputFn(n))
               ELSE Nowait(S, "unit")

\* OnceMaker::ensure_made
EnsureMade(S, n, p) ==
    LET pr == S.producers[n].producer
        once == Make([S EXCEPT !.producers[n].producer.is_started = TRUE])
    IN IF ~pr.is_started
       THEN MapHandle(once.S, once.h, SetOnceOutputFn(n))
       ELSE Nowait(S, "unit")

\* A hypothetical trigger_scale_up that forgets to count the construction
\* down when it is ready.
TriggerScaleUpNoDec(S, n, p) ==
    LET r == ProducerScaleUp([S EXCEPT !.producers[n].scaling_up = @ + 1], n, p)
    IN [r.S EXCEPT !.events = Append(@, [ev |-> "scale_up", h |-> r.h, p |-> p])]

\* Producer::trigger_scale_up; the record of events notes the handle of the
\* construction next to the "scaling up" line of the log
TriggerScaleUp(S, n, p) ==
    LET r == ProducerScaleUp([S EXCEPT !.producers[n].scaling_up = @ + 1], n, p)
    IN MapHandle([r.S EXCEPT !.events = Append(@, [ev |-> "scale_up", h |-> r.h, p |-> p])],
                 r.h, DecScalingUpFn(n)).S

PriorityBits == 16      \* Priority(pub u16)

\* p.0 + 1 on a u16.  Past the largest value a build with overflow checks
\* (`checks`) panics and a build without them wraps around.
PriorityPlusOne(p, checks) ==
    [panics |-> checks /\ p + 1 >= 2^PriorityBits,
     p |-> (p + 1) % 2^PriorityBits]

\* A hypothetical scale_up_if_needed that leaves the constructions under way
\* out of the threshold.
ScaleUpIfNeededNoInFlight(S, n, checks) ==
    LET pwq == S.producers[n]
        q == PriorityPlusOne(Head(pwq.queue).p, checks)
    IN IF Len(pwq.queue) > AvailableParallelism(pwq.producer) * ScaleFactor
       THEN IF q.panics THEN [S EXCEPT !.panicked = TRUE]
            ELSE TriggerScaleUp(S, n, q.p)
       ELSE S

\* A hypothetical scale_up_if_needed that triggers at the threshold already;
\* queue.front().unwrap() panics on an empty queue.
ScaleUpIfNeededAtThreshold(S, n, checks) ==
    LET pwq == S.producers[n]
        q == PriorityPlusOne(Head(pwq.queue).p, checks)
    IN IF Len(pwq.queue)
            >= (AvailableParallelism(pwq.producer) + pwq.scaling_up * ScaleK) * ScaleFactor
       THEN IF pwq.queue = <<>> \/ q.panics THEN [S EXCEPT !.panicked = TRUE]
            ELSE TriggerScaleUp(S, n, q.p)
       ELSE S

\* ProducerWithQueue::scale_up_if_needed, and the closure it returns run,
\* in a build with (`checks`) or without overflow checks
ScaleUpIfNeeded(S, n, checks) ==
    LET pwq == S.producers[n]
        q == PriorityPlusOne(Head(pwq.queue).p, checks)
    IN IF Len(pwq.queue)
            > (AvailableParallelism(pwq.producer) + pwq.scaling_up * ScaleK) * ScaleFactor
       THEN IF q.panics THEN [S EXCEPT !.panicked = TRUE]
            ELSE TriggerScaleUp(S, n, q.p)
       ELSE S

\* GameState::scale_up
GameScaleUp(S, n, p) == TriggerScaleUp(S, n, p)

(***************************************************************************)
(* ExecSpec: the script asks one machine, which has the inputs it needs at *)
(* hand, for a number of outputs one after the other, each request issued  *)
(* by the `then` closure of the one before; it then runs                   *)
(* GameState::complete on the last handle (runtime.rs 105-113).            *)
(***************************************************************************)
MaxChain == 3       \* outputs asked for in one chain
MaxIdle == 2        \* ticks the script lets pass before it starts the chain

RECURSIVE SeqChain(_, _, _, _)
\* h = state.then(h, |state, _| request) repeated k times
SeqChain(S, h, p, k) ==
    IF k = 0 THEN [S |-> S, h |-> h]
    ELSE Only({SeqChain(t.S, t.h, p, k - 1) :
                  t \in {ThenHandle(S, h, RequestFn("prod", p, 0))}})

\* The chain of `len` requests: each `then` is either put on the handle of
\* the `then` before it, or made inside the closure of the one before it.
StartChain(S, len, style, p) ==
    Only({IF len = 1 THEN r
          ELSE IF style = "sequential" THEN SeqChain(r.S, r.h, p, len - 1)
          ELSE ThenHandle(r.S, r.h, RequestFn("prod", p, len - 2)) :
             r \in {WaitForProducerOutput(S, "prod", p)}})

EInit ==
    /\ queue = EmptyQueue
    /\ panicked = FALSE
    /\ lastOp = NoOp
    /\ tick = 0
    /\ producers = [n \in {"prod"} |->
                       NewPWQ(MultiMachineProducer(Present(<<NewMachine>>)))]
    /\ events = <<>>
    /\ script = [pc |-> "idle"]
    /\ EOtherIdle

EStartChain ==
    /\ ~panicked
    /\ script.pc = "idle"
    /\ \E len \in 1..MaxChain, style \in {"sequential", "nested"} :
         \E r \in {StartChain(GS, len, style, 1)} :
            /\ Store(r.S)
            /\ script' = [pc |-> "running", goal |-> r.h, start |-> tick, len |-> len]
            /\ lastOp' = [op |-> "start", style |-> style]
    /\ UNCHANGED EOther

\* tick_fwd, called by the script before the chain starts or by complete
\* when the handle is not resolved yet
ETickFwd ==
    /\ ~panicked
    /\ \/ script.pc = "idle" /\ tick < MaxIdle
       \/ /\ script.pc = "running"
          /\ ~QGet(queue, script.goal).ret.some
          /\ tick < script.start + script.len * CycleTime + 1
    /\ \E S \in {TickFwd(GS)} : Store(S)
    /\ lastOp' = [op |-> "tick_fwd"]
    /\ UNCHANGED <<script, EOther>>

\* complete: the handle is resolved and its value moved out
EComplete ==
    /\ ~panicked
    /\ script.pc = "running"
    /\ QGet(queue, script.goal).ret.some
    /\ queue' = QGet(queue, script.goal).q
    /\ script' = [pc |-> "done", goal |-> script.goal, start |-> script.start,
                  len |-> script.len, at |-> tick]
    /\ lastOp' = [op |-> "complete"]
    /\ UNCHANGED <<panicked, tick, producers, events, EOther>>

ENext == EStartChain \/ ETickFwd \/ EComplete

ExecSpec == EInit /\ [][ENext]_vars

(***************************************************************************)
(* MultiBundle for a pair of bundles (recipes.rs 49-68).  A resource is    *)
(* the amount it holds; Resource::bundle::<N>, the engine's, takes exactly *)
(* N units out or fails and leaves the resource as it was.                 *)
(***************************************************************************)
\* Resource::bundle::<N>().ok()
ResourceBundle(amount, n) ==
    IF amount >= n THEN [res |-> amount - n, ret |-> Some(n)]
    ELSE [res |-> amount, ret |-> None]

\* (res.0.bundle().ok()?, res.1.bundle().ok()?): the first resource is
\* drawn on, then the second; `?` returns None at the first failure, with
\* what was drawn before it gone
BundleBoth(res, n) ==
    LET first == ResourceBundle(res[1], n[1])
        second == ResourceBundle(res[2], n[2])
    IN IF ~first.ret.some THEN [res |-> res, ret |-> None]
       ELSE IF ~second.ret.some THEN [res |-> <<first.res, res[2]>>, ret |-> None]
       ELSE [res |-> <<first.res, second.res>>,
             ret |-> Some(<<first.ret.val, second.ret.val>>)]

\* MultiBundle::bundle_count for a pair
BundleCount(res, n) == Min({res[1] \div n[1], res[2] \div n[2]})

\* MultiBundle::add for a pair
BundleAdd(res, n) == <<res[1] + n[1], res[2] + n[2]>>

\* A hypothetical bundle without the check of the amounts.
BundleUnchecked(res, n) == BundleBoth(res, n)

\* MultiBundle::bundle for a pair
MultiBundleBundle(res, n) ==
    IF res[1] >= n[1] /\ res[2] >= n[2] THEN BundleBoth(res, n)
    ELSE [res |-> res, ret |-> None]

(***************************************************************************)
(* BundleSpec: a pair of resources holding any amounts, for a pair of      *)
(* bundle sizes; pairs of bundles are added and withdrawn in any order.    *)
(***************************************************************************)
MaxAmount == 5      \* units a resource of BundleSpec holds
MaxBundle == 3      \* units in a bundle of BundleSpec

BInit ==
    /\ \E a, b \in 0..MaxAmount, n1, n2 \in 1..MaxBundle :
          script = [res |-> <<a, b>>, n |-> <<n1, n2>>]
    /\ lastOp = [op |-> "none", pre |-> <<0, 0>>, ret |-> None]
    /\ BOtherIdle

BAdd ==
    /\ script.res[1] + script.n[1] <= MaxAmount
    /\ script.res[2] + script.n[2] <= MaxAmount
    /\ script' = [script EXCEPT !.res = BundleAdd(@, script.n)]
    /\ lastOp' = [op |-> "add", pre |-> script.res, ret |-> None]
    /\ UNCHANGED BOther

BBundle ==
    /\ \E r \in {MultiBundleBundle(script.res, script.n)} :
          /\ script' = [script EXCEPT !.res = r.res]
          /\ lastOp' = [op |-> "bundle", pre |-> script.res, ret |-> r.ret]
    /\ UNCHANGED BOther

BNext == BAdd \/ BBundle

BundleSpec == BInit /\ [][BNext]_vars

(***************************************************************************)
(* CompleteSpec: the script calls GameState::complete (runtime.rs 105-113) *)
(* twice, each time on a handle it has just made: the handle of a chain of *)
(* requests to a machine, a handle resolved from the start, or a handle    *)
(* that never resolves.  One step of the specification is one turn of the  *)
(* loop of complete.  The exploration stops at clock value MaxTickC.       *)
(***************************************************************************)
MaxGoalLen == 2     \* requests in the chain behind a handle of CompleteSpec
MaxCompletes == 2   \* calls of complete in CompleteSpec
MaxTickC == 24      \* clock values in CompleteSpec

\* A hypothetical turn of the loop with a timeout: it gives up on a handle
\* that is not resolved.
CompleteTurnGivesUp(S, h) ==
    LET g == QGet(S.queue, h)
    IN IF g.ret.some THEN [S |-> [S EXCEPT !.queue = g.q], ret |-> g.ret]
       ELSE [S |-> S, ret |-> Some("timeout")]

\* One turn of the loop of complete: if queue.get(h) has the value, it is
\* returned; otherwise tick_fwd is called and the loop goes round
CompleteTurn(S, h) ==
    LET g == QGet(S.queue, h)
    IN IF g.ret.some THEN [S |-> [S EXCEPT !.queue = g.q], ret |-> g.ret]
       ELSE [S |-> TickFwd(S), ret |-> None]

CInit ==
    /\ queue = EmptyQueue
    /\ panicked = FALSE
    /\ lastOp = [op |-> "none", was |-> None]
    /\ tick = 0
    /\ producers = [n \in {"prod"} |->
                       NewPWQ(MultiMachineProducer(Present(<<NewMachine>>)))]
    /\ events = <<>>
    /\ script = [pc |-> "idle", goal |-> 0, kind |-> "none", spins |-> 0,
                 calls |-> 0, rets |-> <<>>]
    /\ COtherIdle

\* The script makes a handle and enters complete on it
CStart ==
    /\ ~panicked
    /\ script.pc = "idle"
    /\ script.calls < MaxCompletes
    /\ \E kind \in {"chain", "nowait", "never"}, len \in 1..MaxGoalLen :
          /\ kind # "chain" => len = 1
          /\ \E r \in {IF kind = "chain" THEN StartChain(GS, len, "sequential", 1)
                        ELSE IF kind = "nowait" THEN Nowait(GS, "unit")
                        ELSE Never(GS)} :
                /\ Store(r.S)
                /\ script' = [script EXCEPT !.pc = "complete", !.goal = r.h,
                                            !.kind = kind, !.spins = 0,
                                            !.calls = @ + 1]
    /\ lastOp' = [op |-> "start", was |-> None]
    /\ UNCHANGED COther

\* A turn of the loop of complete; `was` is the entry of the handle as the
\* turn began
CTurn ==
    /\ ~panicked
    /\ script.pc = "complete"
    /\ QIsReady(queue, script.goal) \/ tick < MaxTickC
    /\ \E r \in {CompleteTurn(GS, script.goal)} :
          /\ Store(r.S)
          /\ script' = IF r.ret.some
                       THEN [script EXCEPT !.pc = "idle",
                                           !.rets = Append(@, r.ret.val)]
                       ELSE [script EXCEPT !.spins = @ + 1]
          /\ lastOp' = [op |-> IF r.ret.some THEN "return" ELSE "tick_fwd",
                        was |-> Some(queue.waiters[script.goal])]
    /\ UNCHANGED COther

CNext == CStart \/ CTurn

CompleteSpec == CInit /\ [][CNext]_vars

(***************************************************************************)
(* ScaleSpec: the script makes its requests to one producer up front;      *)
(* then the scale-up decision is evaluated at any time (and scale_up       *)
(* called directly), the constructions it starts complete at any time, and *)
(* the scheduler ticks.                                                    *)
(***************************************************************************)
MaxBacklog == 53    \* requests made to the producer of ScaleSpec
MaxTickS == 2       \* clock values in ScaleSpec
MaxRoom == 2        \* miners the Territory of ScaleSpec has room for
MaxDirect == 1      \* direct calls of GameState::scale_up in ScaleSpec
MaxScaleHandles == 10   \* handles issued to the scale-ups of ScaleSpec

\* What an evaluation of the scale-up decision saw and did.
ScaleOp(S) ==
    [op |-> "scale_up_if_needed",
     len |-> Len(producers["prod"].queue),
     par |-> AvailableParallelism(producers["prod"].producer),
     pre |-> producers["prod"].scaling_up,
     post |-> S.producers["prod"].scaling_up,
     fired |-> S.queue.next_handle # queue.next_handle]

\* The constructions under way.
PendingMakes(q) ==
    {h \in DOMAIN q.waiters :
        IsWaiting(q.waiters[h]) /\ q.waiters[h].waiter.kind = "make"}

SInit ==
    /\ queue = EmptyQueue
    /\ panicked = FALSE
    /\ lastOp = NoOp
    /\ tick = 0
    /\ \E pr \in {TerritoryNew(m, MaxRoom, 1) : m \in 0..1}
                  \cup {HandCrafterNew, MultiMachineProducer(MMDefault), OnceMakerNew} :
          producers = [n \in {"prod"} |-> NewPWQ(pr)]
    /\ events = <<>>
    /\ SOtherIdle

\* A request for one output of the producer
SRequest ==
    /\ ~panicked
    /\ lastOp.op \in {"none", "request"}
    /\ Cardinality({i \in 1..Len(events) : events[i].ev = "req"}) < MaxBacklog
    /\ \E r \in {WaitForProducerOutput(GS, "prod", 1)} : Store(r.S)
    /\ lastOp' = [op |-> "request"]
    /\ UNCHANGED SOther

\* The scale-up decision is evaluated and the closure it returns is run
SScaleUpIfNeeded ==
    /\ ~panicked
    /\ queue.next_handle < MaxBacklog + MaxScaleHandles
    /\ \E S \in {ScaleUpIfNeeded(GS, "prod", checks) : checks \in BOOLEAN} :
          /\ Store(S)
          /\ lastOp' = [ScaleOp(S) EXCEPT !.op = "scale_up_if_needed"]
                          @@ [prev |-> IF lastOp.op = "scale_up_if_needed"
                                       THEN [op |-> lastOp.op, pre |-> lastOp.pre,
                                             post |-> lastOp.post]
                                       ELSE [op |-> lastOp.op]]
    /\ UNCHANGED SOther

\* GameState::scale_up called by the script
SScaleUp ==
    /\ ~panicked
    /\ Cardinality({i \in 1..Len(events) : events[i].ev = "direct"}) < MaxDirect
    /\ \E S \in {GameScaleUp([GS EXCEPT !.events = Append(@, [ev |-> "direct"])],
                             "prod", 1)} : Store(S)
    /\ lastOp' = [op |-> "scale_up"]
    /\ UNCHANGED SOther

\* A construction completes: its handle gets the entity that was built
SBuildDone ==
    /\ ~panicked
    /\ \E h \in PendingMakes(queue) : queue' = QSetOutput(queue, h, "built")
    /\ lastOp' = [op |-> "built"]
    /\ UNCHANGED <<panicked, tick, producers, events, SOther>>

STickFwd ==
    /\ ~panicked
    /\ tick < MaxTickS
    /\ \E S \in {TickFwd(GS)} : Store(S)
    /\ lastOp' = [op |-> "tick_fwd"]
    /\ UNCHANGED SOther

SNext == SRequest \/ SScaleUpIfNeeded \/ SScaleUp \/ SBuildDone \/ STickFwd

ScaleSpec == SInit /\ [][SNext]_vars

(***************************************************************************)
(* TickSpec: the script asks an iron and a copper Territory, each with or  *)
(* without a miner, for ore, queues hand-mining jobs with with_mut_tick    *)
(* and calls tick_fwd, in any order.                                       *)
(***************************************************************************)
MaxRequestsT == 3   \* requests made in TickSpec
MaxJobs == 2        \* jobs waiting in mut_tick_queue
MaxTickT == 3       \* clock values in TickSpec

\* The lines of the record that say a producer crafted by hand.
HandCrafts(evs) == {i \in 1..Len(evs) : evs[i].ev = "hand_craft"}

TInit ==
    /\ queue = EmptyQueue
    /\ panicked = FALSE
    /\ lastOp = NoOp
    /\ tick = 0
    /\ \E mi, mc \in 0..MaxMiners :
          producers = [n \in {"iron", "copper"} |->
                          NewPWQ(TerritoryNew(IF n = "iron" THEN mi ELSE mc, MaxMiners, 1))]
    /\ events = <<>>
    /\ script = [jobs |-> <<>>]
    /\ TOtherIdle

\* A request for one ore of a territory
TRequest ==
    /\ ~panicked
    /\ queue.next_handle < MaxRequestsT
    /\ \E n \in {"iron", "copper"} :
          \E r \in {WaitForProducerOutput(GS, n, 1)} : Store(r.S)
    /\ lastOp' = [op |-> "request"]
    /\ UNCHANGED <<script, TOther>>

\* GameState::with_mut_tick: a job that advances the clock is queued
TWithMutTick ==
    /\ ~panicked
    /\ Len(script.jobs) < MaxJobs
    /\ \E n \in {"iron", "copper"} :
          script' = [script EXCEPT !.jobs = Append(@, HandMineJob(n))]
    /\ lastOp' = [op |-> "with_mut_tick"]
    /\ UNCHANGED <<queue, panicked, tick, producers, events, TOther>>

\* GameState::tick_fwd
TTickFwd ==
    /\ ~panicked
    /\ tick < MaxTickT
    /\ \E r \in {TickFwdJobs(GS, script.jobs)} :
          /\ Store(r.S)
          /\ script' = [script EXCEPT !.jobs = r.jobs]
          /\ lastOp' = [op |-> "tick_fwd",
                        crafted |-> {r.S.events[i].n :
                                        i \in HandCrafts(r.S.events) \ HandCrafts(events)},
                        crafts |-> Cardinality(HandCrafts(r.S.events))
                                      - Cardinality(HandCrafts(events)),
                        popped |-> Len(script.jobs) - Len(r.jobs),
                        did |-> r.did,
                        mined |-> {r.S.events[i].n :
                                      i \in {j \in 1..Len(r.S.events) :
                                                r.S.events[j].ev = "job"}
                                            \ {j \in 1..Len(events) :
                                                  events[j].ev = "job"}},
                        dt |-> r.S.tick - tick]
    /\ UNCHANGED TOther

TNext == TRequest \/ TWithMutTick \/ TTickFwd

TickSpec == TInit /\ [][TNext]_vars

(***************************************************************************)
(* WakeSpec: the script asks a territory for ore, puts `map` and `then`    *)
(* on the handles it holds (one consumer for each handle), reads the value *)
(* of a handle that is resolved, and calls tick_fwd, in any order.         *)
(* `script.owned` is the set of handles the script holds and has not yet   *)
(* given to a combinator or read.                                          *)
(***************************************************************************)
MaxWakeHandles == 5     \* handles issued before the script of WakeSpec stops asking
MaxTickW == 4           \* clock values in WakeSpec
MaxPeriod == 2          \* the mining period of the territory of WakeSpec

WInit ==
    /\ queue = EmptyQueue
    /\ panicked = FALSE
    /\ lastOp = [op |-> "none", h |-> 0, src |-> 0, polls |-> <<>>, pre |-> EmptyQueue]
    /\ tick = 0
    /\ \E m \in 0..1 :
          producers = [n \in {"prod"} |-> NewPWQ(TerritoryNew(m, MaxMiners, MaxPeriod))]
    /\ events = <<>>
    /\ script = [owned |-> {}]
    /\ WOtherIdle

\* wait_for_producer_output: a request for one ore
WRequest ==
    /\ ~panicked
    /\ queue.next_handle < MaxWakeHandles
    /\ \E r \in {WaitForProducerOutput(GS, "prod", 1)} :
          /\ Store(r.S)
          /\ script' = [owned |-> script.owned \cup {r.h}]
          /\ lastOp' = [op |-> "request", h |-> r.h, src |-> r.h, polls |-> r.S.polls, pre |-> queue]
    /\ UNCHANGED WOther

\* GameState::map on a handle the script holds
WMap ==
    /\ ~panicked
    /\ queue.next_handle < MaxWakeHandles
    /\ \E h \in script.owned :
          \E r \in {MapHandle(GS, h, IdFn)} :
             /\ Store(r.S)
             /\ script' = [owned |-> (script.owned \ {h}) \cup {r.h}]
             /\ lastOp' = [op |-> "map", h |-> r.h, src |-> h, polls |-> r.S.polls,
                           pre |-> queue]
    /\ UNCHANGED WOther

\* GameState::then on a handle the script holds; the closure asks for one
\* more ore
WThen ==
    /\ ~panicked
    /\ queue.next_handle < MaxWakeHandles
    /\ \E h \in script.owned :
          \E r \in {ThenHandle(GS, h, RequestFn("prod", 1, 0))} :
             /\ Store(r.S)
             /\ script' = [owned |-> (script.owned \ {h}) \cup {r.h}]
             /\ lastOp' = [op |-> "then", h |-> r.h, src |-> h, polls |-> r.S.polls,
                           pre |-> queue]
    /\ UNCHANGED WOther

\* WaiterQueue::get on a handle the script holds, when it is resolved
WGet ==
    /\ ~panicked
    /\ \E h \in script.owned :
          /\ QGet(queue, h).ret.some
          /\ queue' = QGet(queue, h).q
          /\ script' = [owned |-> script.owned \ {h}]
          /\ lastOp' = [op |-> "get", h |-> h, src |-> h, polls |-> <<>>, pre |-> queue]
    /\ UNCHANGED <<panicked, tick, producers, events, WOther>>

\* GameState::tick_fwd
WTickFwd ==
    /\ ~panicked
    /\ tick < MaxTickW
    /\ \E S \in {TickFwd(GS)} :
          /\ Store(S)
          /\ lastOp' = [op |-> "tick_fwd", h |-> 0, src |-> 0, polls |-> S.polls, pre |-> queue]
    /\ UNCHANGED <<script, WOther>>

WNext == WRequest \/ WMap \/ WThen \/ WGet \/ WTickFwd

WakeSpec == WInit /\ [][WNext]_vars

(***************************************************************************)
(* PrioSpec: the script makes requests at priorities from both ends of the *)
(* 16-bit range to a territory without miners, and the scale-up decision   *)
(* is evaluated at any time, in a build with or without overflow checks.   *)
(***************************************************************************)
MaxPrioReqs == 3        \* requests made to the territory of PrioSpec
EdgePriorities == {0, 1, 2^PriorityBits - 2, 2^PriorityBits - 1}

VInit ==
    /\ queue = EmptyQueue
    /\ panicked = FALSE
    /\ lastOp = NoOp
    /\ tick = 0
    /\ producers = [n \in {"prod"} |-> NewPWQ(TerritoryNew(0, MaxMiners, MaxPeriod))]
    /\ events = <<>>
    /\ VOtherIdle

\* wait_for_producer_output at priority p
VRequest ==
    /\ ~panicked
    /\ Len(producers["prod"].queue) < MaxPrioReqs
    /\ \E p \in EdgePriorities :
          \E r \in {WaitForProducerOutput(GS, "prod", p)} : Store(r.S)
    /\ lastOp' = [op |-> "request"]
    /\ UNCHANGED VOther

\* The scale-up decision is evaluated and the closure it returns is run;
\* `front` is the priority at the front of the queue before the call
VScaleUpIfNeeded ==
    /\ ~panicked
    /\ producers["prod"].queue # <<>>
    /\ \E checks \in BOOLEAN :
          \E S \in {ScaleUpIfNeeded(GS, "prod", checks)} :
             /\ Store(S)
             /\ lastOp' = [op |-> "scale_up_if_needed",
                           front |-> Head(producers["prod"].queue).p,
                           checks |-> checks,
                           fired |-> S.panicked \/ Len(S.events) # Len(events)]
    /\ UNCHANGED VOther

VNext == VRequest \/ VScaleUpIfNeeded

PrioSpec == VInit /\ [][VNext]_vars

(***************************************************************************)
(* CopySpec: WakeHandle is Copy (scheduler.rs 26-32), so a script can put  *)
(* a `map` on a handle it has already put one on.  The script asks a       *)
(* territory for ore, puts `map` on any handle it was ever given, and      *)
(* calls tick_fwd, in any order.  `script.held` is the set of handles the  *)
(* script was given.                                                       *)
(***************************************************************************)
MaxCopyHandles == 4     \* handles issued before the script of CopySpec stops asking
MaxTickY == 3           \* clock values in CopySpec

YInit ==
    /\ queue = EmptyQueue
    /\ panicked = FALSE
    /\ lastOp = NoOp
    /\ tick = 0
    /\ \E m \in 0..1 :
          producers = [n \in {"prod"} |-> NewPWQ(TerritoryNew(m, MaxMiners, MaxPeriod))]
    /\ events = <<>>
    /\ script = [held |-> {}]
    /\ YOtherIdle

\* wait_for_producer_output: a request for one ore
YRequest ==
    /\ ~panicked
    /\ queue.next_handle < MaxCopyHandles
    /\ \E r \in {WaitForProducerOutput(GS, "prod", 1)} :
          /\ Store(r.S)
          /\ script' = [held |-> script.held \cup {r.h}]
    /\ lastOp' = [op |-> "request"]
    /\ UNCHANGED YOther

\* GameState::map on a handle the script was given, used before or not
YMap ==
    /\ ~panicked
    /\ queue.next_handle < MaxCopyHandles
    /\ \E h \in script.held :
          \E r \in {MapHandle(GS, h, IdFn)} :
             /\ Store(r.S)
             /\ script' = [held |-> script.held \cup {r.h}]
    /\ lastOp' = [op |-> "map"]
    /\ UNCHANGED YOther

\* GameState::tick_fwd
YTickFwd ==
    /\ ~panicked
    /\ tick < MaxTickY
    /\ \E S \in {TickFwd(GS)} : Store(S)
    /\ lastOp' = [op |-> "tick_fwd"]
    /\ UNCHANGED <<script, YOther>>

YNext == YRequest \/ YMap \/ YTickFwd

CopySpec == YInit /\ [][YNext]_vars

(***************************************************************************)
(* JoinSpec: the script asks a territory without miners, whose ore is      *)
(* mined by hand one per tick, for ore, labels each ore with `map`, joins  *)
(* handles it holds, in any order of its choice, with                      *)
(* `pair` and `collect` (each handle given to one consumer), reads the     *)
(* value of a handle that is resolved, asks whether such a one is ready,   *)
(* and calls tick_fwd, in any order.  `script.info` keeps, for every       *)
(* handle the script was given, what made it, the handles it joins and the *)
(* value it is to yield.                                                   *)
(***************************************************************************)
MaxLeaves == 3          \* labelled requests made in JoinSpec
MaxJoins == 2           \* calls of pair and collect in JoinSpec
MaxCollect == 3         \* handles given to one collect
MaxTickJ == 3           \* clock values in JoinSpec

\* The handles the script was given by a call of one kind.
MadeBy(kind) == {h \in DOMAIN script.info : script.info[h].kind = kind}

\* The lists of distinct handles, of up to MaxCollect, the script holds.
OwnedLists ==
    {hs \in UNION {[1..n -> script.owned] : n \in 0..MaxCollect} :
        \A i, j \in 1..Len(hs) : i # j => hs[i] # hs[j]}

JInit ==
    /\ queue = EmptyQueue
    /\ panicked = FALSE
    /\ lastOp = [op |-> "none", h |-> 0, ret |-> FALSE, polls |-> <<>>, pre |-> EmptyQueue]
    /\ tick = 0
    /\ producers = [n \in {"prod"} |-> NewPWQ(TerritoryNew(0, MaxMiners, MaxPeriod))]
    /\ events = <<>>
    /\ script = [owned |-> {}, info |-> <<>>]
    /\ JOtherIdle

\* h = map(wait_for_producer_output(1), |_, v| (k, v)): a labelled request
JLeaf ==
    /\ ~panicked
    /\ Cardinality(MadeBy("leaf")) < MaxLeaves
    /\ \E r \in {WaitForProducerOutput(GS, "prod", 1)} :
          \E m \in {MapHandle(r.S, r.h, LabelFn(Cardinality(MadeBy("leaf")) + 1))} :
             /\ Store(m.S)
             /\ script' = [owned |-> script.owned \cup {m.h},
                           info |-> script.info @@
                              (m.h :> [kind |-> "leaf", ins |-> <<>>,
                                       val |-> Labelled(Cardinality(MadeBy("leaf")) + 1,
                                                        "bundle")])]
             /\ lastOp' = [op |-> "leaf", h |-> m.h, ret |-> FALSE, polls |-> m.S.polls, pre |-> queue]
    /\ UNCHANGED JOther

\* GameState::pair on two handles the script holds
JPair ==
    /\ ~panicked
    /\ Cardinality(MadeBy("pair") \cup MadeBy("collect")) < MaxJoins
    /\ \E x, y \in script.owned :
          /\ x # y
          /\ \E r \in {PairHandles(GS, x, y)} :
                /\ Store(r.S)
                /\ script' = [owned |-> (script.owned \ {x, y}) \cup {r.h},
                              info |-> script.info @@
                                 (r.h :> [kind |-> "pair", ins |-> <<x, y>>,
                                          val |-> PairVal(script.info[x].val,
                                                          script.info[y].val)])]
                /\ lastOp' = [op |-> "pair", h |-> r.h, ret |-> FALSE, polls |-> r.S.polls, pre |-> queue]
    /\ UNCHANGED JOther

\* GameState::collect on a list of handles the script holds
JCollect ==
    /\ ~panicked
    /\ Cardinality(MadeBy("pair") \cup MadeBy("collect")) < MaxJoins
    /\ \E hs \in OwnedLists :
          \E r \in {CollectHandles(GS, hs)} :
             /\ Store(r.S)
             /\ script' = [owned |-> (script.owned \ Range(hs)) \cup {r.h},
                           info |-> script.info @@
                              (r.h :> [kind |-> "collect", ins |-> hs,
                                       val |-> VecVal([i \in 1..Len(hs) |->
                                                          script.info[hs[i]].val])])]
             /\ lastOp' = [op |-> "collect", h |-> r.h, ret |-> FALSE, polls |-> r.S.polls, pre |-> queue]
    /\ UNCHANGED JOther

\* WaiterQueue::get on a handle the script holds, when it is resolved
JGet ==
    /\ ~panicked
    /\ \E h \in script.owned :
          /\ QGet(queue, h).ret.some
          /\ queue' = QGet(queue, h).q
          /\ script' = [script EXCEPT !.owned = @ \ {h}]
          /\ lastOp' = [op |-> "get", h |-> h, ret |-> FALSE, polls |-> <<>>, pre |-> queue]
    /\ UNCHANGED <<panicked, tick, producers, events, JOther>>

\* GameState::is_ready on a handle the script holds that is resolved
JIsReady ==
    /\ ~panicked
    /\ \E h \in script.owned :
          /\ QIsReady(queue, h)
          /\ \E r \in {IsReady(GS, h)} :
                /\ Store(r.S)
                /\ lastOp' = [op |-> "is_ready", h |-> h, ret |-> r.ret,
                              polls |-> r.S.polls, pre |-> queue]
    /\ UNCHANGED <<script, JOther>>

\* GameState::tick_fwd
JTickFwd ==
    /\ ~panicked
    /\ tick < MaxTickJ
    /\ \E S \in {TickFwd(GS)} :
          /\ Store(S)
          /\ lastOp' = [op |-> "tick_fwd", h |-> 0, ret |-> FALSE, polls |-> S.polls, pre |-> queue]
    /\ UNCHANGED <<script, JOther>>

JNext == JLeaf \/ JPair \/ JCollect \/ JGet \/ JIsReady \/ JTickFwd

JoinSpec == JInit /\ [][JNext]_vars

(***************************************************************************)
(* ContSpec: the script asks a territory without miners for ore and puts   *)
(* `map` and `then` on handles it holds: a map that labels the value, a    *)
(* then whose closure asks for more ore, and a then whose closure hands on *)
(* another handle g the script held, with the value it was given put       *)
(* before the value of g.  It reads resolved handles and calls tick_fwd,   *)
(* in any order.  `script.info` is as in JoinSpec; `script.called` is the  *)
(* set of handles whose continuation was called and `script.twice` tells   *)
(* whether one was called a second time.                                   *)
(***************************************************************************)
MaxContHandles == 5     \* handles issued before the script of ContSpec stops asking
MaxTickK == 3           \* clock values in ContSpec

\* The handles whose continuation the calls noted in a log were made for.
CallsIn(log) == {i \in 1..Len(log) : log[i].by = "closure"}

\* The script's record of the continuations called, after a log.
Called(scr, log) ==
    [scr EXCEPT !.called = @ \cup {log[i].h : i \in CallsIn(log)},
                !.twice = \/ @
                          \/ \E i \in CallsIn(log) : log[i].h \in scr.called
                          \/ \E i, j \in CallsIn(log) : i # j /\ log[i].h = log[j].h]

\* The script of ContSpec once a call gave it handle h in exchange for the
\* handles `used`.
Given(h, used, kind, val, log) ==
    Called([script EXCEPT !.owned = (@ \ Range(used)) \cup {h},
                          !.info = @ @@ (h :> [kind |-> kind, ins |-> used, val |-> val])],
           log)

KInit ==
    /\ queue = EmptyQueue
    /\ panicked = FALSE
    /\ lastOp = [op |-> "none", h |-> 0, polls |-> <<>>, pre |-> EmptyQueue]
    /\ tick = 0
    /\ producers = [n \in {"prod"} |-> NewPWQ(TerritoryNew(0, MaxMiners, MaxPeriod))]
    /\ events = <<>>
    /\ script = [owned |-> {}, info |-> <<>>, called |-> {}, twice |-> FALSE]
    /\ KOtherIdle

\* wait_for_producer_output: a request for one ore
KRequest ==
    /\ ~panicked
    /\ queue.next_handle < MaxContHandles
    /\ \E r \in {WaitForProducerOutput(GS, "prod", 1)} :
          /\ Store(r.S)
          /\ script' = Given(r.h, <<>>, "request", "bundle", r.S.polls)
          /\ lastOp' = [op |-> "request", h |-> r.h, polls |-> r.S.polls, pre |-> queue]
    /\ UNCHANGED KOther

\* map(h, |_, v| (h, v)) on a handle the script holds
KMap ==
    /\ ~panicked
    /\ queue.next_handle < MaxContHandles
    /\ \E h \in script.owned :
          \E r \in {MapHandle(GS, h, LabelFn(h))} :
             /\ Store(r.S)
             /\ script' = Given(r.h, <<h>>, "map", Labelled(h, script.info[h].val),
                                r.S.polls)
             /\ lastOp' = [op |-> "map", h |-> r.h, polls |-> r.S.polls, pre |-> queue]
    /\ UNCHANGED KOther

\* then(h, |state, _| state.wait_for_producer_output(..)) on a handle the
\* script holds
KThenRequest ==
    /\ ~panicked
    /\ queue.next_handle < MaxContHandles
    /\ \E h \in script.owned :
          \E r \in {ThenHandle(GS, h, RequestFn("prod", 1, 0))} :
             /\ Store(r.S)
             /\ script' = Given(r.h, <<h>>, "then_request", "bundle", r.S.polls)
             /\ lastOp' = [op |-> "then", h |-> r.h, polls |-> r.S.polls, pre |-> queue]
    /\ UNCHANGED KOther

\* then(h, move |state, v| state.map(g, move |_, w| (v, w))) on two handles
\* the script holds
KThenJoin ==
    /\ ~panicked
    /\ queue.next_handle < MaxContHandles
    /\ \E h, g \in script.owned :
          /\ h # g
          /\ \E r \in {ThenHandle(GS, h, JoinFn(g))} :
                /\ Store(r.S)
                /\ script' = Given(r.h, <<h, g>>, "then_join",
                                   PairVal(script.info[h].val, script.info[g].val),
                                   r.S.polls)
                /\ lastOp' = [op |-> "then", h |-> r.h, polls |-> r.S.polls, pre |-> queue]
    /\ UNCHANGED KOther

\* WaiterQueue::get on a handle the script holds, when it is resolved
KGet ==
    /\ ~panicked
    /\ \E h \in script.owned :
          /\ QGet(queue, h).ret.some
          /\ queue' = QGet(queue, h).q
          /\ script' = [script EXCEPT !.owned = @ \ {h}]
          /\ lastOp' = [op |-> "get", h |-> h, polls |-> <<>>, pre |-> queue]
    /\ UNCHANGED <<panicked, tick, producers, events, KOther>>

\* GameState::tick_fwd
KTickFwd ==
    /\ ~panicked
    /\ tick < MaxTickK
    /\ \E S \in {TickFwd(GS)} :
          /\ Store(S)
          /\ script' = Called(script, S.polls)
          /\ lastOp' = [op |-> "tick_fwd", h |-> 0, polls |-> S.polls, pre |-> queue]
    /\ UNCHANGED KOther

KNext == KRequest \/ KMap \/ KThenRequest \/ KThenJoin \/ KGet \/ KTickFwd

ContSpec == KInit /\ [][KNext]_vars

(***************************************************************************)
(* OnceSpec: up to MaxRequesters requesters ask one OnceMaker for its      *)
(* resource while ensure_made and scale_up are called, the scale-up        *)
(* decision is evaluated, the construction completes and the scheduler     *)
(* ticks, in any order.  The scheduler keeps ticking, it keeps evaluating  *)
(* the scale-up decision, and a construction under way completes.  The     *)
(* clock, which a OnceMaker never reads, stops at MaxTickO.                *)
(***************************************************************************)
MaxRequesters == 5      \* requesters of the OnceMaker
MaxTickO == 1           \* the clock value OnceSpec stops counting at
MaxEnsure == 1          \* calls of OnceMaker::ensure_made in OnceSpec
MaxOnceHandles == 7     \* handles issued before the evaluations of OnceSpec stop

\* How many events of a kind were recorded.
CountEv(kind) == Cardinality({i \in 1..Len(events) : events[i].ev = kind})

\* The value a construction yields: what the construction behind handle h built.
Built(h) == "built by " \o ToString(h)

OInit ==
    /\ queue = EmptyQueue
    /\ panicked = FALSE
    /\ tick = 0
    /\ producers = [n \in {"prod"} |-> NewPWQ(OnceMakerNew)]
    /\ events = <<>>
    /\ OOtherIdle

\* A requester asks for the resource: OnceMakeable::trigger_make
ORequest ==
    /\ ~panicked
    /\ CountEv("req") < MaxRequesters
    /\ \E r \in {WaitForProducerOutput(GS, "prod", 1)} : Store(r.S)
    /\ UNCHANGED OOther

\* OnceMaker::ensure_made called by the script
OEnsureMade ==
    /\ ~panicked
    /\ CountEv("ensure") < MaxEnsure
    /\ \E r \in {EnsureMade([GS EXCEPT !.events = Append(@, [ev |-> "ensure"])],
                            "prod", 1)} :
          Store([r.S EXCEPT !.events = Append(@, [ev |-> "ensured", h |-> r.h])])
    /\ UNCHANGED OOther

\* GameState::scale_up called by the script
OScaleUp ==
    /\ ~panicked
    /\ CountEv("direct") < MaxDirect
    /\ \E S \in {GameScaleUp([GS EXCEPT !.events = Append(@, [ev |-> "direct"])],
                             "prod", 1)} : Store(S)
    /\ UNCHANGED OOther

\* The scale-up decision is evaluated and the closure it returns is run
OScaleUpIfNeeded ==
    /\ ~panicked
    /\ queue.next_handle < MaxOnceHandles
    /\ \E S \in {ScaleUpIfNeeded(GS, "prod", checks) : checks \in BOOLEAN} : Store(S)
    /\ UNCHANGED OOther

\* The construction completes: its handle gets what was built
OBuildDone ==
    /\ ~panicked
    /\ \E h \in PendingMakes(queue) : queue' = QSetOutput(queue, h, Built(h))
    /\ UNCHANGED <<panicked, tick, producers, events, OOther>>

OTickFwd ==
    /\ ~panicked
    /\ \E S \in {TickFwd(GS)} : Store([S EXCEPT !.tick = Min({@, MaxTickO})])
    /\ UNCHANGED OOther

ONext ==
    ORequest \/ OEnsureMade \/ OScaleUp \/ OScaleUpIfNeeded \/ OBuildDone \/ OTickFwd

\* Whether a tick would change anything: ENABLED <<OTickFwd>>_vars, written
\* out.
TickChanges ==
    /\ ~panicked
    /\ \E S \in {TickFwd(GS)} : [S EXCEPT !.tick = Min({@, MaxTickO})] # GS

\* Weak fairness of OTickFwd, WF_vars(OTickFwd), with its enabling condition
\* written out: the loop of GameState::complete keeps calling tick_fwd.
FairTick == []<>(~TickChanges) \/ []<><<OTickFwd>>_vars

OnceSpec ==
    /\ OInit
    /\ [][ONext]_vars
    /\ FairTick
    /\ WF_vars(OScaleUpIfNeeded)
    /\ WF_vars(OBuildDone)

(***************************************************************************)
(* Claims settled on QueueSpec.                                            *)
(***************************************************************************)

\* C1: at-most-once read.  Once a get(h) has returned a value, no later
\* get(h), get_ref(h) or is_ready(h) yields a value for h again.
C1_AtMostOnceRead ==
    (lastOp.op \in {"get", "get_ref", "is_ready"} /\ lastOp.wasMoved)
        => ~lastOp.ret.some

\* C1 witness: a get on a handle whose value was moved out earlier.
C1_Witness ==
    /\ lastOp.op = "get"
    /\ lastOp.wasMoved
    /\ ~lastOp.ret.some
    /\ ~panicked

\* C2: reading a handle a second time, after its value was moved out, is a
\* fatal assertion (it does not merely report "not ready").
C2_SecondReadIsFatal ==
    (lastOp.op = "get" /\ lastOp.wasMoved) => panicked

\* C3: set_output on a handle whose entry is already Done panics instead of
\* overwriting the stored value.
C3_DoubleResolveIsFatal ==
    (lastOp.op = "set_output" /\ lastOp.wasDone) => panicked


(***************************************************************************)
(* Claims settled on PQSpec.                                               *)
(***************************************************************************)
TheQueue == producers["prod"].queue

\* The number of requests the last update served.
Drained == Len(lastOp.pre) - Len(TheQueue)

\* C4: no lost wake-up.  After update returns, the queue is empty or the
\* producer has no output left; what it drained went, one output each and in
\* order, to the requests that stood at the front of the queue, which are
\* resolved, and the rest of the queue is as it was.
C4_NoLostWakeup ==
    lastOp.op = "update" =>
        /\ \/ TheQueue = <<>>
           \/ ~ProducerPoll(producers["prod"].producer, tick).ret.some
        /\ Drained >= 0
        /\ TheQueue = SubSeq(lastOp.pre, Drained + 1, Len(lastOp.pre))
        /\ OutputsReady(producers["prod"].producer) = lastOp.outputs - Drained
        /\ Len(events) = lastOp.nevents + Drained
        /\ \A k \in 1..Drained :
              /\ events[lastOp.nevents + k].ev = "give"
              /\ events[lastOp.nevents + k].h = lastOp.pre[k].sink
              /\ QIsReady(queue, lastOp.pre[k].sink)

\* C4 witness: an update that served two requests and ran out of outputs with
\* a request still queued.
C4_Witness ==
    /\ lastOp.op = "update"
    /\ Drained = 2
    /\ TheQueue # <<>>

\* The requests made before event i and not yet served before event i.
PendingAt(i) ==
    {j \in 1..(i - 1) :
        /\ events[j].ev = "req"
        /\ ~\E k \in 1..(i - 1) : events[k].ev = "give" /\ events[k].h = events[j].h}

ReqOf(h) == CHOOSE j \in 1..Len(events) : events[j].ev = "req" /\ events[j].h = h

\* The priorities of the requests served, in the order they were served.
ServedPriorities ==
    LET gives == SelectSeq(events, LAMBDA e : e.ev = "give")
    IN [k \in 1..Len(gives) |-> events[ReqOf(gives[k].h)].p]

RequestedPriorities ==
    LET reqs == SelectSeq(events, LAMBDA e : e.ev = "req")
    IN [k \in 1..Len(reqs) |-> reqs[k].p]

\* C5: priority delivery order.  Whenever an output is given to a request,
\* every other request pending at that moment has a lower priority, or the
\* same priority and a later arrival; so requests made as [3,1,2] before any
\* output are served as [3,2,1].
C5_PriorityOrder ==
    /\ \A i \in 1..Len(events) :
          events[i].ev = "give" =>
              \A j \in PendingAt(i) \ {ReqOf(events[i].h)} :
                  \/ events[j].p < events[ReqOf(events[i].h)].p
                  \/ /\ events[j].p = events[ReqOf(events[i].h)].p
                     /\ ReqOf(events[i].h) < j
    /\ (/\ Len(events) = 6
        /\ \A i \in 1..3 : events[i].ev = "req"
        /\ RequestedPriorities = <<3, 1, 2>>)
           => ServedPriorities = <<3, 2, 1>>

\* C5 witness: requests made with priorities 3, 1, 2 and then served, one
\* output at a time, in the order 3, 2, 1.
C5_Witness ==
    /\ Len(events) = 6
    /\ \A i \in 1..3 : events[i].ev = "req"
    /\ RequestedPriorities = <<3, 1, 2>>
    /\ ServedPriorities = <<3, 2, 1>>
    /\ OutputsReady(producers["prod"].producer) = 0

\* C6: the queue of a ProducerWithQueue is sorted by non-increasing priority
\* in every reachable state.
C6_QueueSorted ==
    \A n \in DOMAIN producers :
        \A i, j \in 1..Len(producers[n].queue) :
            i < j => producers[n].queue[i].p >= producers[n].queue[j].p

\* C6 witness: a request of middle priority was enqueued last and stands
\* between the two others.
C6_Witness ==
    /\ lastOp.op \in {"feed", "enqueue"}
    /\ Len(TheQueue) = 3
    /\ TheQueue[2].sink = lastOp.h
    /\ TheQueue[1].p > TheQueue[2].p
    /\ TheQueue[2].p > TheQueue[3].p


\* C13: hand-craft fallback.  craft_by_hand_if_needed crafts by hand only
\* when the producer has no automated entity and its queue is not empty; a
\* hand-craft yields exactly one output and advances the clock by exactly
\* one tick; when nothing is crafted the clock stays.
C13_HandCraftFallback ==
    (lastOp.op = "craft_by_hand_if_needed" /\ ~panicked)
        => IF lastOp.advanced
           THEN /\ ~lastOp.auto
                /\ lastOp.len > 0
                /\ lastOp.outAfter = lastOp.out + 1
                /\ lastOp.tickAfter = lastOp.tick + 1
           ELSE /\ lastOp.outAfter = lastOp.out
                /\ lastOp.tickAfter = lastOp.tick

\* C13 witness: a hand-craft for a queued request was performed.
C13_Witness ==
    /\ lastOp.op = "craft_by_hand_if_needed"
    /\ ~panicked
    /\ lastOp.advanced
    /\ lastOp.len > 0
    /\ lastOp.tickAfter = lastOp.tick + 1

(***************************************************************************)
(* Claims settled on MMSpec.                                               *)
(***************************************************************************)
Abs(x) == IF x < 0 THEN -x ELSE x

\* C9: load-balance convergence.  When a second machine is added to a store
\* holding one machine, the queued input loads of the two machines after the
\* add differ by at most one recipe cycle.
C9_LoadBalance ==
    (/\ lastOp.op = "add"
     /\ lastOp.pre.tag = "Present"
     /\ Len(lastOp.pre.machines) = 1
     /\ ~panicked)
        => /\ mm.tag = "Present"
           /\ Len(mm.machines) = 2
           /\ Abs(InputLoad(mm.machines[1]) - InputLoad(mm.machines[2])) <= 1
           /\ SumLoads(mm.machines) = SumLoads(lastOp.pre.machines)

\* C9 witness: a second machine added to one machine holding three input
\* bundles, which keeps one and hands over two.
C9_Witness ==
    /\ lastOp.op = "add"
    /\ lastOp.pre.tag = "Present"
    /\ Len(lastOp.pre.machines) = 1
    /\ InputLoad(lastOp.pre.machines[1]) = 3
    /\ InputLoad(mm.machines[1]) = 1
    /\ InputLoad(mm.machines[2]) = 2


\* The queued input loads of the machines of a store.
Loads(s) == [i \in 1..Len(s.machines) |-> InputLoad(s.machines[i])]

C16_AddLeavesNoSkew ==
    (lastOp.op = "add" /\ lastOp.pre.tag = "Present" /\ ~panicked)
        => /\ mm.tag = "Present"
           /\ Len(mm.machines) = Len(lastOp.pre.machines) + 1
           /\ \A i \in 1..Len(lastOp.pre.machines) :
                 Loads(mm)[i] <= SumLoads(lastOp.pre.machines) \div Len(mm.machines)
           /\ \A i, j \in 1..Len(mm.machines) : Loads(mm)[i] - Loads(mm)[j] <= 1

\* C17: no work is lost across the construction boundary.  A store without
\* machines buffers the inputs fed to it and the outputs crafted by hand
\* from them, and the first machine added holds as many input bundles and
\* as many output bundles as the store had buffered.
C17_NoWorkLost ==
    (lastOp.op \in {"add", "add_inputs", "craft_by_hand"}
     /\ lastOp.pre.tag = "NoMachine" /\ ~panicked)
        => CASE lastOp.op = "add_inputs" ->
                   /\ mm.tag = "NoMachine"
                   /\ mm.inputs = lastOp.pre.inputs + 1
                   /\ mm.outputs = lastOp.pre.outputs
             [] lastOp.op = "craft_by_hand" ->
                   /\ mm.tag = "NoMachine"
                   /\ mm.inputs + mm.outputs = lastOp.pre.inputs + lastOp.pre.outputs
             [] lastOp.op = "add" ->
                   /\ mm.tag = "Present"
                   /\ Len(mm.machines) = 1
                   /\ mm.machines[1].inp = lastOp.pre.inputs * InAmount
                   /\ mm.machines[1].out = lastOp.pre.outputs * OutAmount
                   /\ InputLoad(mm.machines[1]) = lastOp.pre.inputs

\* C17 witness: the first machine was added to a store that had buffered
\* two inputs and one output crafted by hand.
C17_Witness ==
    /\ lastOp.op = "add"
    /\ lastOp.pre.tag = "NoMachine"
    /\ lastOp.pre.inputs = 2
    /\ lastOp.pre.outputs = 1
    /\ mm.tag = "Present"
    /\ InputLoad(mm.machines[1]) = 2
    /\ mm.machines[1].out = OutAmount

(***************************************************************************)
(* Claims settled on ExecSpec.                                             *)
(***************************************************************************)
\* The requests and the deliveries of the chain, in order.
ChainEvents == SelectSeq(events, LAMBDA e : e.ev \in {"req", "give"})

\* The handles polled by the last operation.
Polls == {i \in 1..Len(lastOp.polls) : lastOp.polls[i].by = "check_waiter"}
Polled == {lastOp.polls[i].h : i \in Polls}
\* The polls the sweep of check_waiters made itself.
SweepPolls == {i \in Polls : i > 1 /\ lastOp.polls[i - 1].by = "check_waiters"}

\* C18: a waiter that is dormant because its poll returned WaitingFor(X) is
\* not polled, by the sweep or by any other path, while X is still waiting:
\* no poll of the last operation was of a dormant waiter whose X was waiting.
C18_DormantNotPolled ==
    \A i \in Polls : ~lastOp.polls[i].blocked_on.some

\* A handle is resolved once its entry is Done or its value was moved out.
Resolved(h) == ~Has(queue, h) \/ IsDone(queue.waiters[h])

\* The waiters that resolved during the last operation.
ResolvedNow ==
    {h \in DOMAIN lastOp.pre.waiters : IsWaiting(lastOp.pre.waiters[h]) /\ Resolved(h)}

\* The `map` and `then` waiters still waiting on a handle that is resolved.
Lagging ==
    {h \in DOMAIN queue.waiters :
        /\ IsWaiting(queue.waiters[h])
        /\ queue.waiters[h].waiter.kind \in {"map", "then"}
        /\ Has(queue, queue.waiters[h].waiter.h)
        /\ IsDone(queue.waiters[queue.waiters[h].waiter.h])}

\* C19: same-tick wake-up.  When tick_fwd returns, every waiter that was
\* registered as a dependent of a waiter that resolved during the call (by
\* Ready in check_waiter or by set_output from a producer update) was polled
\* during the call, nothing is left in needs_update, and no `map` or `then`
\* waiter is still waiting on a handle that is resolved.
C19_SameTickWakeUp ==
    (lastOp.op = "tick_fwd" /\ ~panicked)
        => /\ \A h \in ResolvedNow :
                 \A d \in Range(lastOp.pre.waiters[h].dependent) : d \in Polled
           /\ queue.needs_update = <<>>
           /\ Lagging = {}

\* C19 witness: a tick_fwd in which a producer update resolved a resource
\* waiter, its dependent `map` h was polled and resolved, and the dependent
\* d of h was polled and resolved in turn.
C19_Witness ==
    /\ lastOp.op = "tick_fwd"
    /\ ~panicked
    /\ \E h \in ResolvedNow :
          LET w == lastOp.pre.waiters[h]
          IN /\ w.waiter.kind = "map"
             /\ w.waiter.h \in ResolvedNow
             /\ lastOp.pre.waiters[w.waiter.h].waiter.kind = "resource"
             /\ h \in Range(lastOp.pre.waiters[w.waiter.h].dependent)
             /\ \E d \in Range(w.dependent) :
                   d \in ResolvedNow /\ {h, d} \subseteq Polled

\* The entries that are Done.
DoneEntries == {h \in DOMAIN queue.waiters : IsDone(queue.waiters[h])}

\* C20: Done is terminal.  Over every step, an entry that is Done is not
\* polled, and it is either still the same Done entry afterwards or gone
\* because its value was read; it never returns to Waiting.
C20_DoneIsTerminal ==
    [][\A h \in DoneEntries :
          /\ \A i \in 1..Len(lastOp'.polls) :
                lastOp'.polls[i].by = "check_waiter" => lastOp'.polls[i].h # h
          /\ Has(queue', h) => queue'.waiters[h] = queue.waiters[h]]_vars

\* C20 witness: a tick_fwd whose sweep polled a waiter that resolved left an
\* entry that was Done before the call as it was.
C20_Witness ==
    /\ lastOp.op = "tick_fwd"
    /\ ~panicked
    /\ \E h \in DoneEntries :
          /\ Has(lastOp.pre, h)
          /\ lastOp.pre.waiters[h] = queue.waiters[h]
    /\ \E i \in SweepPolls : lastOp.polls[i].h \in ResolvedNow

\* The polls enqueue_waiter made of the waiter it was given.
RegistrationPolls ==
    {i \in 1..Len(lastOp.polls) : lastOp.polls[i].by = "enqueue_waiter"}

\* C21: map and then, which go through GameState::enqueue_waiter, poll the
\* new waiter once.  If the source handle was resolved and the poll of `map`
\* was Ready, the handle returned is Done with the value and never polled;
\* a handle that is not Done is Waiting, not dormant and has no dependents.
\* In a tick_fwd every such waiter that was Waiting and not dormant is polled.
C21_RegistrationPoll ==
    /\ (lastOp.op \in {"map", "then"} /\ ~panicked)
           => /\ Cardinality(RegistrationPolls) = 1
              /\ Has(queue, lastOp.h)
              /\ ~Has(lastOp.pre, lastOp.h)
              /\ lastOp.h \notin Polled
              /\ IF IsDone(queue.waiters[lastOp.h])
                 THEN /\ Has(lastOp.pre, lastOp.src)
                      /\ IsDone(lastOp.pre.waiters[lastOp.src])
                      /\ lastOp.op = "map"
                            => queue.waiters[lastOp.h] = lastOp.pre.waiters[lastOp.src]
                 ELSE /\ queue.waiters[lastOp.h].st = "Waiting"
                      /\ ~queue.waiters[lastOp.h].dormant
                      /\ queue.waiters[lastOp.h].dependent = <<>>
                      /\ ~(Has(lastOp.pre, lastOp.src)
                             /\ IsDone(lastOp.pre.waiters[lastOp.src])
                             /\ lastOp.op = "map")
    /\ (lastOp.op = "tick_fwd" /\ ~panicked)
           => \A h \in DOMAIN lastOp.pre.waiters :
                 (/\ IsWaiting(lastOp.pre.waiters[h])
                  /\ lastOp.pre.waiters[h].waiter.kind \in {"map", "then"}
                  /\ ~lastOp.pre.waiters[h].dormant)
                    => h \in Polled

\* C21 witness: a map on a resolved handle gave a handle that is Done.
C21_Witness ==
    /\ lastOp.op = "map"
    /\ ~panicked
    /\ IsDone(queue.waiters[lastOp.h])
    /\ lastOp.pre.waiters[lastOp.src] = Done("bundle")

\* C21 witness of the other branch: a tick_fwd polled a `then` waiter that
\* was registered, not dormant, by the call before.
C21_WitnessWaiting ==
    /\ lastOp.op = "tick_fwd"
    /\ ~panicked
    /\ \E h \in Polled :
          /\ Has(lastOp.pre, h)
          /\ IsWaiting(lastOp.pre.waiters[h])
          /\ ~lastOp.pre.waiters[h].dormant
          /\ lastOp.pre.waiters[h].waiter.kind = "then"

\* The inputs of a join the script made that are not resolved yet.
Unresolved(h) ==
    {x \in Range(script.info[h].ins) : Has(queue, x) /\ ~IsDone(queue.waiters[x])}

\* C22: the handle of pair(x, y) is resolved only when x and y are, with the
\* value (value of x, value of y) whichever resolved first, and it is not
\* left waiting once both are resolved; no call panics.
C22_PairJoin ==
    /\ ~panicked
    /\ \A h \in MadeBy("pair") :
          /\ Resolved(h) => Unresolved(h) = {}
          /\ (Has(queue, h) /\ IsDone(queue.waiters[h]))
                => /\ queue.waiters[h].val = script.info[h].val
                   /\ \A x \in Range(script.info[h].ins) : ~Has(queue, x)
          /\ ~Resolved(h) => Unresolved(h) # {}

\* C22 witness: a tick_fwd resolved a pair whose second input had resolved
\* in an earlier tick and whose first input resolved in this one.
C22_Witness ==
    /\ lastOp.op = "tick_fwd"
    /\ ~panicked
    /\ \E h \in MadeBy("pair") :
          LET x == script.info[h].ins[1]
              y == script.info[h].ins[2]
          IN /\ Has(queue, h)
             /\ queue.waiters[h] = Done(script.info[h].val)
             /\ Has(lastOp.pre, h) /\ IsWaiting(lastOp.pre.waiters[h])
             /\ Has(lastOp.pre, x) /\ IsWaiting(lastOp.pre.waiters[x])
             /\ Has(lastOp.pre, y) /\ IsDone(lastOp.pre.waiters[y])

\* C23: the handle of collect(handles) is resolved exactly when every handle
\* of the list is (at once for the empty list), with the values in the order
\* of the list whatever the order they resolved in; no call panics.
C23_CollectJoin ==
    /\ ~panicked
    /\ \A h \in MadeBy("collect") :
          /\ Resolved(h) <=> Unresolved(h) = {}
          /\ (Has(queue, h) /\ IsDone(queue.waiters[h]))
                => /\ queue.waiters[h].val = script.info[h].val
                   /\ \A x \in Range(script.info[h].ins) : ~Has(queue, x)

\* C23 witness: a tick_fwd resolved a collect of three handles of which the
\* first was the last to resolve.
C23_Witness ==
    /\ lastOp.op = "tick_fwd"
    /\ ~panicked
    /\ \E h \in MadeBy("collect") :
          LET hs == script.info[h].ins
          IN /\ Len(hs) = 3
             /\ Has(queue, h)
             /\ queue.waiters[h] = Done(script.info[h].val)
             /\ Has(lastOp.pre, h) /\ IsWaiting(lastOp.pre.waiters[h])
             /\ Has(lastOp.pre, hs[1]) /\ IsWaiting(lastOp.pre.waiters[hs[1]])
             /\ Has(lastOp.pre, hs[2]) /\ IsDone(lastOp.pre.waiters[hs[2]])
             /\ Has(lastOp.pre, hs[3]) /\ IsDone(lastOp.pre.waiters[hs[3]])

\* C23 witness for the empty list: collect of no handles gave a handle that
\* is Done with the empty vector.
C23_WitnessEmpty ==
    /\ lastOp.op = "collect"
    /\ script.info[lastOp.h].ins = <<>>
    /\ queue.waiters[lastOp.h] = Done("[]")

\* The handles a map or a then was put on in ContSpec, by the script or, for
\* the handle g a closure holds, by that closure once it is called.
Continued ==
    UNION {Range(script.info[c].ins) :
              c \in MadeBy("map") \cup MadeBy("then_request") \cup MadeBy("then_join")}

\* C24: the continuation of the map or then put on handle h is called once
\* at most, and it was called exactly when the value of h was moved out,
\* which takes h resolved; a map yields the closure's result for the value
\* of h; a then whose closure hands on g with the value v it was given is
\* resolved only once g is, with (v, value of g), v the value of h; no call
\* panics.
C24_ContinuationOnce ==
    /\ ~panicked
    /\ ~script.twice
    /\ script.called \subseteq Continued
    /\ \A h \in Continued : h \in script.called <=> ~Has(queue, h)
    /\ \A c \in MadeBy("map") \cup MadeBy("then_join") \cup MadeBy("then_request") :
          (Has(queue, c) /\ IsDone(queue.waiters[c]))
             => queue.waiters[c].val = script.info[c].val
    /\ \A c \in MadeBy("then_join") :
          Resolved(c) <=> Unresolved(c) = {}

\* C24 witness: a tick_fwd resolved a then whose first handle had resolved,
\* and its closure been called, in an earlier tick, while the handle the
\* closure handed on resolved in this one.
C24_Witness ==
    /\ lastOp.op = "tick_fwd"
    /\ ~panicked
    /\ \E c \in MadeBy("then_join") :
          LET g == script.info[c].ins[2]
          IN /\ Has(queue, c)
             /\ queue.waiters[c] = Done(script.info[c].val)
             /\ Has(lastOp.pre, c)
             /\ IsWaiting(lastOp.pre.waiters[c])
             /\ lastOp.pre.waiters[c].waiter.stage = "Second"
             /\ Has(lastOp.pre, g)
             /\ IsWaiting(lastOp.pre.waiters[g])
             /\ script.info[g].kind = "map"

\* C25: is_ready and check_waiter on an entry that is Done change nothing
\* and do not panic, is_ready answers true, and no waiter is polled: so it
\* is in every state for every Done entry, and so it was when the script
\* called is_ready on a resolved handle.
C25_RepollIsNoOp ==
    /\ \A h \in DoneEntries :
          /\ CheckWaiter(GS, h) = GS
          /\ IsReady(GS, h) = [S |-> GS, ret |-> TRUE]
    /\ (/\ lastOp.op = "is_ready"
        /\ Has(lastOp.pre, lastOp.h)
        /\ IsDone(lastOp.pre.waiters[lastOp.h]))
           => /\ ~panicked
              /\ lastOp.ret
              /\ queue = lastOp.pre
              /\ lastOp.polls = <<>>

\* C25 witness: the script called is_ready on a pair that was resolved while
\* another handle was still waiting.
C25_Witness ==
    /\ lastOp.op = "is_ready"
    /\ ~panicked
    /\ lastOp.h \in MadeBy("pair")
    /\ Has(lastOp.pre, lastOp.h)
    /\ IsDone(lastOp.pre.waiters[lastOp.h])
    /\ \E g \in DOMAIN queue.waiters : IsWaiting(queue.waiters[g])

\* The handles of the resource waiters made so far, and those of them that
\* a producer delivered to.
ResourceHandles == {events[i].h : i \in {j \in 1..Len(events) : events[j].ev = "req"}}
Delivered == {events[i].h : i \in {j \in 1..Len(events) : events[j].ev = "give"}}

\* What holds of the resource waiters between calls: one that is no longer
\* Waiting was delivered to, and one that was polled is dormant afterwards.
ResourceWaitersAsleep ==
    /\ \A h \in ResourceHandles : Resolved(h) => h \in Delivered
    /\ \A i \in Polls :
          (lastOp.polls[i].h \in ResourceHandles /\ ~Resolved(lastOp.polls[i].h))
             => queue.waiters[lastOp.polls[i].h].dormant

\* C26 as stated: resource waiters are dormant from creation, the sweep
\* never polls one, and they leave Waiting only through a delivery.
C26_ResourceNeverSwept ==
    /\ \A h \in ResourceHandles : ~Resolved(h) => queue.waiters[h].dormant
    /\ \A i \in SweepPolls : lastOp.polls[i].h \notin ResourceHandles
    /\ ResourceWaitersAsleep

\* C26 amended: a resource waiter is created not dormant; the sweep polls it
\* only while it is not dormant, any poll of it leaves it dormant, and once
\* dormant it stays so until a producer delivers its output, so the sweep
\* polls it once at most; it leaves Waiting only through that delivery.
C26_ResourceSweptOnce ==
    /\ [](/\ (lastOp.op = "request" /\ ~panicked)
               => (~Resolved(lastOp.h) => ~queue.waiters[lastOp.h].dormant)
          /\ \A i \in SweepPolls :
                lastOp.polls[i].h \in ResourceHandles => ~lastOp.polls[i].dormant
          /\ ResourceWaitersAsleep)
    /\ [][\A h \in ResourceHandles :
             (~Resolved(h) /\ queue.waiters[h].dormant)
                => \/ ~Has(queue', h)
                   \/ IsDone(queue'.waiters[h])
                   \/ IsWaiting(queue'.waiters[h]) /\ queue'.waiters[h].dormant]_vars

\* C26 witness: a tick_fwd whose sweep polled a resource waiter, which is
\* still waiting, and dormant, after it.
C26_Witness ==
    /\ lastOp.op = "tick_fwd"
    /\ ~panicked
    /\ \E i \in SweepPolls :
          /\ lastOp.polls[i].h \in ResourceHandles
          /\ ~lastOp.polls[i].dormant
          /\ Has(queue, lastOp.polls[i].h)
          /\ IsWaiting(queue.waiters[lastOp.polls[i].h])
          /\ queue.waiters[lastOp.polls[i].h].dormant

\* The observations the last operation made on entering and on leaving
\* check_waiters.
ClockNotes(at) == {i \in 1..Len(lastOp.polls) : lastOp.polls[i].by = at}

\* C27: the clock is advanced only from tick_fwd, before the waiters are
\* checked.  Only tick_fwd changes the clock; it enters check_waiters once,
\* after the clock has moved, and leaves it once; and every observation of
\* the last operation (the entry to check_waiters, each poll, each call of a
\* continuation, the return of check_waiters) was made at the value the
\* clock has now, so that the tick at the start of check_waiters equals the
\* tick at its end.
C27_ClockOnlyInTickFwd ==
    /\ [](\A i \in 1..Len(lastOp.polls) : lastOp.polls[i].t = tick)
    /\ [][/\ tick' # tick => lastOp'.op = "tick_fwd"
          /\ (lastOp'.op = "tick_fwd" /\ ~panicked') =>
                /\ tick' = tick + 1
                /\ lastOp'.polls # <<>>
                /\ ClockNotes("checking")' = {1}
                /\ ClockNotes("checked")' = {Len(lastOp'.polls)}]_vars

\* A tick_fwd whose check_waiters polled a waiter and called a continuation,
\* which asked the producer for more.
C27_Witness ==
    /\ lastOp.op = "tick_fwd"
    /\ ~panicked
    /\ tick > 1
    /\ Polls # {}
    /\ \E i \in 1..Len(lastOp.polls) :
          /\ lastOp.polls[i].by = "closure"
          /\ Has(lastOp.pre, lastOp.polls[i].h)
          /\ lastOp.pre.waiters[lastOp.polls[i].h].waiter.kind = "then"

\* C28: for a MultiMachine, Removed is terminal and fatal.  From a Removed
\* store no operation leads to another state, and adding a machine, adding
\* inputs and polling for output each panic.
C28_RemovedIsFatal ==
    [][mm = Removed =>
          /\ mm' = Removed
          /\ lastOp'.op \in {"add", "add_inputs", "poll"} => panicked']_vars

\* C29: a Removed MachineStorage never receives new work.  From a Removed
\* store add and request each panic, and the store is never Present again.
C29_RemovedStorageIsFatal ==
    [][mm = Removed =>
          /\ mm'.tag # "Present"
          /\ lastOp'.op \in {"add", "request"} => panicked']_vars

\* C30: a ReusableContainer only moves from Empty to Available: a container
\* that holds a value holds one in every later state, so that available()
\* returns a token from then on.
C30_AvailableNeverReverts ==
    [][\A c \in Reusables :
          RCAvailable(script.reusable[c]).some =>
             RCAvailable(script'.reusable[c]).some]_vars

\* C31: an Available token proves that the value exists.  No
\* ReusableContainer::get with a token issued earlier hits an empty
\* container: a get never panics.
C31_TokenProvesValue ==
    lastOp.op = "get_reusable" => ~panicked

\* C32: take_map leaves the source store Removed and returns a store with
\* the same number of machines and every input and output the source held,
\* those buffered while it was NoMachine included.
C32_TakeMapCarriesOver ==
    lastOp.op = "take_map" =>
       /\ mm = Removed
       /\ MMCount(mmTaken) = MMCount(lastOp.pre)
       /\ MMTotalLoad(mmTaken) = MMTotalLoad(lastOp.pre)
       /\ MMTotalOutputs(mmTaken) = MMTotalOutputs(lastOp.pre)

\* C36: when the handle returned by OnceMaker::ensure_made resolves, the
\* resource has been made: the output of the OnceMaker is set whenever a
\* handle ensure_made returned is Done, for the first caller and for a caller
\* that came while the build was under way.
C36_EnsuredIsMade ==
    \A i \in {j \in 1..Len(events) : events[j].ev = "ensured"} :
       (Has(queue, events[i].h) /\ IsDone(queue.waiters[events[i].h])) =>
          producers["prod"].producer.output.some

\* C33: complete(h) returns only when h has resolved, and returns h's
\* value; on a handle that does not resolve it never returns and keeps
\* calling tick_fwd, there being no timeout.  A return is from a Done entry
\* with that entry's value; a turn on an unresolved handle calls tick_fwd
\* and stays in the loop; a handle that never resolves is never returned
\* from, however far the clock has run.
C33_CompleteBlocks ==
    /\ [](lastOp.op = "return" =>
             /\ IsDone(lastOp.was.val)
             /\ script.rets[Len(script.rets)] = lastOp.was.val.val)
    /\ [](script.kind = "never" => script.pc = "complete" /\ ~panicked)
    /\ [][(script.pc = "complete" /\ ~QIsReady(queue, script.goal)) =>
             /\ script'.pc = "complete"
             /\ script'.rets = script.rets
             /\ tick' = tick + 1
             /\ script'.spins = script.spins + 1]_vars

\* A complete on a chain of two requests has returned the output of the
\* machine, and a second complete, on a handle that never resolves, has
\* called tick_fwd up to the last clock value without returning.
C33_Witness ==
    /\ script.rets = <<"bundle">>
    /\ script.kind = "never"
    /\ script.pc = "complete"
    /\ script.spins > 0
    /\ tick = MaxTickC

\* Whether a territory has to be mined by hand for a request: it has no
\* miner and its queue is not empty.
NeedsHandCraft(n) ==
    /\ ~CanCraftAutomatically(producers[n].producer)
    /\ producers[n].queue # <<>>

\* C34: the jobs of with_mut_tick run inside tick_fwd in FIFO order, at most
\* one per call and in place of the plain advance.  A hand-craft of iron
\* comes before one of copper, which comes before a queued job; a job runs
\* only when no territory needed a hand-craft, and it is the job at the
\* front of the queue; the clock is advanced plainly only when there is
\* neither a hand-craft nor a job; with_mut_tick puts its job at the back.
C34_JobsInTickFwd ==
    [][/\ (lastOp'.op = "tick_fwd" /\ ~panicked') =>
             /\ lastOp'.did \in {"hand_craft", "job", "advance"}
             /\ lastOp'.did = "hand_craft" <=>
                   (NeedsHandCraft("iron") \/ NeedsHandCraft("copper"))
             /\ lastOp'.did = "hand_craft" =>
                   /\ lastOp'.crafted =
                         IF NeedsHandCraft("iron") THEN {"iron"} ELSE {"copper"}
                   /\ script'.jobs = script.jobs
             /\ lastOp'.did = "job" <=>
                   /\ ~NeedsHandCraft("iron") /\ ~NeedsHandCraft("copper")
                   /\ script.jobs # <<>>
             /\ lastOp'.did = "job" =>
                   /\ script'.jobs = Tail(script.jobs)
                   /\ lastOp'.crafted = {}
                   /\ lastOp'.mined = {Head(script.jobs).n}
             /\ lastOp'.did = "advance" =>
                   /\ script'.jobs = script.jobs
                   /\ lastOp'.crafted = {}
                   /\ lastOp'.mined = {}
             /\ lastOp'.dt = 1
       /\ lastOp'.op = "with_mut_tick" =>
             /\ Len(script'.jobs) = Len(script.jobs) + 1
             /\ SubSeq(script'.jobs, 1, Len(script.jobs)) = script.jobs
             /\ tick' = tick]_vars

\* Two different jobs were queued, the iron job first; a tick_fwd ran the
\* iron job and left the copper job waiting.
C34_Witness ==
    /\ lastOp.op = "tick_fwd"
    /\ ~panicked
    /\ lastOp.did = "job"
    /\ lastOp.mined = {"iron"}
    /\ script.jobs = <<HandMineJob("copper")>>

\* C35: withdrawing a pair of bundles is atomic.  MultiBundle::bundle
\* either takes exactly N1 units of the first resource and N2 of the second
\* and returns them, or returns None and leaves both resources as they
\* were, which it does when either is short; it succeeds exactly when
\* bundle_count is at least 1.
C35_PairBundleAtomic ==
    lastOp.op = "bundle" =>
       /\ IF lastOp.ret.some
          THEN /\ script.res[1] = lastOp.pre[1] - script.n[1]
               /\ script.res[2] = lastOp.pre[2] - script.n[2]
               /\ lastOp.ret.val = script.n
          ELSE script.res = lastOp.pre
       /\ (lastOp.pre[1] < script.n[1] \/ lastOp.pre[2] < script.n[2])
             => ~lastOp.ret.some
       /\ lastOp.ret.some <=> BundleCount(lastOp.pre, script.n) >= 1

\* A withdrawal failed for want of the second resource while the first had
\* enough for a bundle.
C35_Witness ==
    /\ lastOp.op = "bundle"
    /\ ~lastOp.ret.some
    /\ lastOp.pre[1] >= script.n[1]
    /\ lastOp.pre[2] < script.n[2]
    /\ script.res = lastOp.pre

\* C37: MultiMachine::add on a Present store conserves the queued input.
\* The input loads of all the machines after the add sum to the loads of the
\* machines before plus what the new machine held; no machine that was there
\* holds more than before, and none of them loses or gains an output.
C37_AddConservesInput ==
    (lastOp.op = "add" /\ lastOp.pre.tag = "Present" /\ ~panicked)
        => /\ mm.tag = "Present"
           /\ Len(mm.machines) = Len(lastOp.pre.machines) + 1
           /\ SumLoads(mm.machines)
                 = SumLoads(lastOp.pre.machines) + InputLoad(NewMachine)
           /\ \A i \in 1..Len(lastOp.pre.machines) :
                 /\ InputLoad(mm.machines[i]) <= InputLoad(lastOp.pre.machines[i])
                 /\ mm.machines[i].out = lastOp.pre.machines[i].out
           /\ mm.machines[Len(mm.machines)].inp
                 = NewMachine.inp + InAmount * (SumLoads(lastOp.pre.machines)
                      - SumLoads(SubSeq(mm.machines, 1, Len(lastOp.pre.machines))))

\* A machine was added to a store of two machines, and took input bundles
\* over from them.
C37_Witness ==
    /\ lastOp.op = "add"
    /\ lastOp.pre.tag = "Present"
    /\ Len(lastOp.pre.machines) = 2
    /\ mm.tag = "Present"
    /\ InputLoad(mm.machines[3]) > 0
    /\ SumLoads(mm.machines) = SumLoads(lastOp.pre.machines)

\* C38: no stranded dormant waiter.  At the end of every check_waiters
\* call, every Waiting entry that is dormant because its poll returned
\* WaitingFor(X) is in the dependent list of X, and X is still Waiting: X is
\* not Done and has not been consumed.
C38_NoStrandedDormant ==
    (lastOp.op = "tick_fwd" /\ ~panicked) =>
       \A h \in DOMAIN queue.waiters :
          (/\ IsWaiting(queue.waiters[h])
           /\ queue.waiters[h].dormant
           /\ queue.waiters[h].waiter.kind \in {"map", "then"}) =>
             /\ Has(queue, queue.waiters[h].waiter.h)
             /\ IsWaiting(queue.waiters[queue.waiters[h].waiter.h])
             /\ h \in Range(queue.waiters[queue.waiters[h].waiter.h].dependent)

\* The miner constructions in flight: the waiters that install a miner when
\* its construction is complete, and have not done so yet.
MinersInFlight(q) ==
    {h \in DOMAIN q.waiters :
        /\ IsWaiting(q.waiters[h])
        /\ q.waiters[h].waiter.kind = "map"
        /\ q.waiters[h].waiter.f = Some(AddMinerFn("prod"))}

\* The handles Producer::scale_up returned to trigger_scale_up.
ScaleUpHandles(evs) == {evs[i].h : i \in {j \in 1..Len(evs) : evs[j].ev = "scale_up"}}

\* C39: for a Territory, the built miners plus the miner constructions in
\* flight never exceed max_miners, add_miner on the completion of a
\* construction never fails, and a trigger that would exceed the limit
\* starts no construction and gets a handle that never resolves.
C39_MinersWithinLimit ==
    /\ [](producers["prod"].producer.kind = "Territory" =>
            /\ ~panicked
            /\ producers["prod"].producer.miners + Cardinality(MinersInFlight(queue))
                  <= producers["prod"].producer.max_miners)
    /\ [][(/\ producers["prod"].producer.kind = "Territory"
           /\ ScaleUpHandles(events') # ScaleUpHandles(events)
           /\ producers["prod"].producer.miners + Cardinality(MinersInFlight(queue)) + 1
                 > producers["prod"].producer.max_miners) =>
             /\ PendingMakes(queue') = PendingMakes(queue)
             /\ MinersInFlight(queue') = MinersInFlight(queue)
             /\ \A h \in ScaleUpHandles(events') \ ScaleUpHandles(events) :
                   /\ IsWaiting(queue'.waiters[h])
                   /\ queue'.waiters[h].waiter.kind = "never"]_vars

\* A territory that was filled up by constructions and refused a trigger.
C39_Witness ==
    /\ producers["prod"].producer.kind = "Territory"
    /\ ~panicked
    /\ producers["prod"].producer.miners = MaxRoom
    /\ \E i \in 1..Len(events) : events[i].ev = "give"
    /\ \E h \in ScaleUpHandles(events) :
          /\ Has(queue, h)
          /\ IsWaiting(queue.waiters[h])
          /\ queue.waiters[h].waiter.kind = "never"

\* C40: scale_up_if_needed asks for the new entity at a priority exactly one
\* above the priority at the front of the queue, for every 16-bit front
\* priority, without overflow or wrap-around.
C40_PriorityOneAbove ==
    (lastOp.op = "scale_up_if_needed" /\ lastOp.fired) =>
       /\ ~panicked
       /\ events # <<>>
       /\ events[Len(events)].ev = "scale_up"
       /\ events[Len(events)].p = lastOp.front + 1

EvaluatedTwice ==
    /\ lastOp.op = "scale_up_if_needed"
    /\ lastOp.prev.op = "scale_up_if_needed"
    /\ lastOp.prev.pre = 0
    /\ lastOp.prev.post = 1
    /\ ~panicked

C11_ScaleUpTrigger ==
    (lastOp.op = "scale_up_if_needed" /\ ~panicked)
        => /\ lastOp.fired <=> lastOp.len > (lastOp.par + lastOp.pre * ScaleK) * ScaleFactor
           /\ lastOp.fired => lastOp.len > 0

\* C11 witness: with a miner at work and no construction under way, a queue
\* of five requests triggered a scale-up.
C11_Witness ==
    /\ lastOp.op = "scale_up_if_needed"
    /\ ~panicked
    /\ lastOp.fired
    /\ lastOp.len = 5
    /\ lastOp.par = 1
    /\ lastOp.pre = 0

\* The scale-ups triggered whose construction handle has not resolved yet.
InFlight ==
    {i \in 1..Len(events) :
        /\ events[i].ev = "scale_up"
        /\ Has(queue, events[i].h)
        /\ IsWaiting(queue.waiters[events[i].h])}

\* C12: in every reachable state scaling_up is the number of triggered
\* scale-ups whose construction handle has not resolved yet; it never goes
\* below zero (the decrement of a zero counter would panic).
C12_ScalingUpCountsInFlight ==
    /\ ~panicked
    /\ producers["prod"].scaling_up = Cardinality(InFlight)
    /\ producers["prod"].scaling_up >= 0

\* C12 witness: a first miner was built and counted down, and a second
\* construction is under way.
C12_Witness ==
    /\ producers["prod"].producer.kind = "Territory"
    /\ producers["prod"].producer.miners = 1
    /\ Cardinality({i \in 1..Len(events) : events[i].ev = "scale_up"}) = 2
    /\ producers["prod"].scaling_up = 1
    /\ Cardinality(InFlight) = 1

(***************************************************************************)
(* Claims settled on TickSpec.                                             *)
(***************************************************************************)
\* The waiters have been checked: no update is pending and no producer holds
\* a ready output next to a waiting request.
WaitersChecked ==
    /\ queue.needs_update = <<>>
    /\ \A n \in DOMAIN producers :
          ~(producers[n].queue # <<>> /\ OutputsReady(producers[n].producer) > 0)

\* C14: a tick_fwd call performs exactly one time-consuming action, a
\* hand-craft of iron ore, a hand-craft of copper ore, one queued mut-tick
\* job or a plain advance of the clock, never two of them, and the waiters
\* are checked after it.
C14_OneActionPerTick ==
    (lastOp.op = "tick_fwd" /\ ~panicked)
        => /\ lastOp.crafts + lastOp.popped <= 1
           /\ lastOp.dt = 1
           /\ WaitersChecked

\* C14 witness: copper ore was crafted by hand in a tick_fwd that left a
\* queued job waiting and had no need to craft iron ore.
C14_Witness ==
    /\ lastOp.op = "tick_fwd"
    /\ ~panicked
    /\ lastOp.crafted = {"copper"}
    /\ lastOp.popped = 0
    /\ script.jobs # <<>>
    /\ lastOp.dt = 1

(***************************************************************************)
(* Claims settled on OnceSpec.                                             *)
(***************************************************************************)
\* The places in the record of events of a kind.
EventsOf(kind) == {i \in 1..Len(events) : events[i].ev = kind}

\* Every request made so far has been given its output.
AllServed ==
    \A i \in EventsOf("req") : \E j \in EventsOf("give") : events[j].h = events[i].h

\* At most one build was started, exactly one once a requester was served,
\* and the requesters served were all given the same value.
OneBuildShared ==
    /\ ~panicked
    /\ Cardinality(EventsOf("build")) <= 1
    /\ EventsOf("give") # {} => Cardinality(EventsOf("build")) = 1
    /\ \A i, j \in EventsOf("give") : events[i].v = events[j].v

=============================================================================
